---- MODULE Spec2Model ----
(***************************************************************************)
(* Field-level eligibility verdicts of the trial eligibility display       *)
(* (StructuredEligibilityDisplay) evaluated against a patient profile,     *)
(* together with the quiz handlers that produce the profile's age and      *)
(* brain-metastases fields (Spec); the patient quiz MatchQuiz and its      *)
(* steps (SpecQuiz); the eligibility evaluator and the competitor          *)
(* similarity engine as the design describes them (SpecEngine); and the    *)
(* match and competitor pages with the requests they send (SpecPages);     *)
(* the trials page and the requests of its filters (SpecTrials); and the   *)
(* criteria and location steps of the competitor quiz (SpecManual).        *)
(*                                                                         *)
(* Strings that the code folds to lower or upper case are modelled as      *)
(* sequences of one-character strings, so that case folding is computed    *)
(* character by character.  Biomarker names are object keys, compared      *)
(* exactly, and stay plain strings.                                        *)
(***************************************************************************)
EXTENDS Integers, Sequences, FiniteSets, TLC

\* StructuredEligibilityDisplay: its props and the items it renders
VARIABLES patientProfile, eligibility, items

\* MatchQuiz: its state, the local state of the mounted BiomarkersStep, the
\* isLoading prop, and the profile handed to onSubmit by the last step taken
VARIABLES currentStep, profile, expandedMutation, unknownBiomarkers,
          isLoading, submitted

\* Matching engine behind the API: the call it is serving, either an
\* eligibility evaluation (the field verdicts of a patient against a trial
\* and the aggregate status) or a competitor comparison (reference,
\* candidate and similarity score)
VARIABLES evaluation, comparison

\* The mounted page (MatchPage in its structured and free-text versions, or
\* CompetitorPage) with the state of its components: PatientMatchForm
\* (description, formLocation, formError), MatchPage (loading, usedV2),
\* CompetitorPage (viewState), CompetitorQuiz (competitorStep, quizState),
\* CompetitorResults (sortBy, sortedCompetitors); error and results are those
\* of the mounted page.  pc is the request the page's handler awaits, requests
\* the requests made for the latest submission, response an answer that has
\* arrived and waits for the handler to resume.
VARIABLES page, description, formLocation, formError, loading, usedV2,
          viewState, competitorStep, quizState, sortBy, sortedCompetitors,
          error, results, pc, requests, response

\* TrialsPage: the page number, the phase filter and the search text, the
\* data shown (the number of the request it answers), loading and error, and
\* the requests getTrials has made, each with its parameters and its outcome
VARIABLES pageNumber, phase, search, data, trialsLoading, trialsError,
          trialRequests

\* CompetitorQuiz on its manual path: the step shown, the age bounds of the
\* criteria step, the states of the location step, and the profile handed to
\* onSubmitStructured by the last step taken
VARIABLES manualStep, ageMin, ageMax, target_locations, structuredProfile

displayVars == <<patientProfile, eligibility, items>>

trialsVars == <<pageNumber, phase, search, data, trialsLoading, trialsError,
                trialRequests>>

manualVars == <<manualStep, ageMin, ageMax, target_locations, structuredProfile>>

pageVars == <<page, description, formLocation, formError, loading, usedV2,
              viewState, competitorStep, quizState, sortBy, sortedCompetitors,
              error, results, pc, requests, response>>

engineVars == <<evaluation, comparison>>

quizVars == <<currentStep, profile, expandedMutation, unknownBiomarkers,
              isLoading, submitted>>

vars == <<displayVars, quizVars, engineVars, pageVars, trialsVars, manualVars>>

\* What the steps of one component leave alone
OutsideDisplay == UNCHANGED <<quizVars, engineVars, pageVars, trialsVars, manualVars>>

OutsideQuiz == UNCHANGED <<displayVars, engineVars, pageVars, trialsVars, manualVars>>

OutsideEngine == UNCHANGED <<displayVars, quizVars, pageVars, trialsVars, manualVars>>

OutsidePages == UNCHANGED <<displayVars, quizVars, engineVars, trialsVars, manualVars>>

OutsideTrials == UNCHANGED <<displayVars, quizVars, engineVars, pageVars, manualVars>>

OutsideManual == UNCHANGED <<displayVars, quizVars, engineVars, pageVars, trialsVars>>

\* JavaScript null / undefined for string-valued fields compared as whole
\* strings (brain_mets_status, line_of_therapy, location, ...).
Null == "null"

\* Nullable numbers, booleans, arrays and case-folded strings are optional
\* values: None is null / undefined, Some(v) is the value v.
None == <<>>

Some(v) == <<v>>

IsSome(o) == o # None

Val(o) == o[1]

-----------------------------------------------------------------------------
\* String helpers

UpperLetters == <<"A","B","C","D","E","F","G","H","I","J","K","L","M",
                  "N","O","P","Q","R","S","T","U","V","W","X","Y","Z">>

LowerLetters == <<"a","b","c","d","e","f","g","h","i","j","k","l","m",
                  "n","o","p","q","r","s","t","u","v","w","x","y","z">>

LowerChar(c) ==
    IF \E i \in 1..26 : UpperLetters[i] = c
    THEN LowerLetters[CHOOSE i \in 1..26 : UpperLetters[i] = c]
    ELSE c

UpperChar(c) ==
    IF \E i \in 1..26 : LowerLetters[i] = c
    THEN UpperLetters[CHOOSE i \in 1..26 : LowerLetters[i] = c]
    ELSE c

toLowerCase(s) == [i \in 1..Len(s) |-> LowerChar(s[i])]

toUpperCase(s) == [i \in 1..Len(s) |-> UpperChar(s[i])]

\* Array.prototype.includes / the elements of an array
Elems(arr) == {arr[i] : i \in 1..Len(arr)}

\* String.prototype.includes: needle occurs as a contiguous part of hay
includes(hay, needle) ==
    \E i \in 0..(Len(hay) - Len(needle)) :
        SubSeq(hay, i + 1, i + Len(needle)) = needle

\* arr.map(v => v.toLowerCase())
LowerAll(arr) == [i \in 1..Len(arr) |-> toLowerCase(arr[i])]

-----------------------------------------------------------------------------
\* Indicator lists of the display

positiveIndicators ==
    << <<"p","o","s","i","t","i","v","e">>,
       <<"p","r","e","s","e","n","t">>,
       <<"d","e","t","e","c","t","e","d">>,
       <<"+">> >>

negativeIndicators ==
    << <<"n","e","g","a","t","i","v","e">>,
       <<"w","i","l","d","-","t","y","p","e">>,
       <<"n","o","t"," ","d","e","t","e","c","t","e","d">>,
       <<"-">> >>

-----------------------------------------------------------------------------
\* Sample strings (reported mutation values and stages)

L858R        == <<"L","8","5","8","R">>
l858r        == <<"l","8","5","8","r">>
Exon19del    == <<"E","x","o","n"," ","1","9"," ","d","e","l">>
T790M        == <<"T","7","9","0","M">>
G12C         == <<"G","1","2","C">>
positive     == <<"p","o","s","i","t","i","v","e">>
Positive     == <<"P","o","s","i","t","i","v","e">>
plusSign     == <<"+">>
negative     == <<"n","e","g","a","t","i","v","e">>
WildType     == <<"W","i","l","d","-","T","y","p","e">>
StageIV      == <<"I","V">>
stageiv      == <<"i","v">>
StageII      == <<"I","I">>
StageIIIB    == <<"I","I","I","B">>
EmptyString  == <<>>
squamous     == <<"s","q","u","a","m","o","u","s">>
Squamous     == <<"S","q","u","a","m","o","u","s">>
NonSquamous  == <<"N","o","n","-","s","q","u","a","m","o","u","s">>
large_cell   == <<"l","a","r","g","e","_","c","e","l","l">>

\* Sample numeric bounds of a trial
TrialAgeMin  == 18
TrialAgeMax  == 75
TrialEcogMin == 1
TrialEcogMax == 1

\* Highest ECOG option offered (ecogOptions, values 0..4)
MaxEcogOption == 4

-----------------------------------------------------------------------------
\* Patient profiles

\* An object with no keys (Record<string, string[]> = {})
EmptyMap == [b \in {} |-> <<>>]

initialProfile ==
    [ cancer_type            |-> "NSCLC",
      histology              |-> None,
      stage                  |-> None,
      biomarkers             |-> EmptyMap,
      age                    |-> None,
      ecog_status            |-> None,
      prior_treatments       |-> Some(<<>>),
      brain_metastases       |-> None,
      location               |-> Null,
      line_of_therapy        |-> Null,
      brain_mets_status      |-> Null,
      last_treatment_date    |-> Null,
      prior_malignancy       |-> None,
      organ_function_issues  |-> None,
      travel_distance_miles  |-> None ]

\* Values a patient may report for one biomarker
ReportedValues ==
    { <<>>,
      <<L858R>>, <<l858r>>, <<T790M>>,
      <<positive>>, <<Positive>>, <<plusSign>>,
      <<negative>>, <<WildType>>,
      <<negative, positive>>,
      <<T790M, positive>>,
      <<T790M, L858R>> }

BiomarkerReports ==
    { [b \in {"EGFR"} |-> v] : v \in ReportedValues }
    \cup { [b \in {"EGFR", "KRAS"} |-> IF b = "EGFR" THEN <<L858R>> ELSE <<G12C>>],
           [b \in {"KRAS"} |-> <<G12C>>] }

StageValues == {Some(StageIV), Some(stageiv), Some(StageII), Some(EmptyString)}

HistologyValues ==
    {Some(squamous), Some(Squamous), Some(large_cell), Some(EmptyString)}

\* prior_treatments may be missing from a profile object received as JSON
PriorTreatmentValues == {None, Some(<<"tki">>), Some(<<"tki", "radiation">>)}

\* Profiles a caller may pass to the display: the initial profile with one
\* group of fields reported.
ProfileInputs ==
    {initialProfile}
    \cup { [initialProfile EXCEPT !.ecog_status = Some(v)] : v \in 0..MaxEcogOption }
    \cup { [initialProfile EXCEPT !.stage = v] : v \in StageValues }
    \cup { [initialProfile EXCEPT !.histology = v] : v \in HistologyValues }
    \cup { [initialProfile EXCEPT !.biomarkers = v] : v \in BiomarkerReports }
    \cup { [initialProfile EXCEPT !.prior_treatments = v] : v \in PriorTreatmentValues }

-----------------------------------------------------------------------------
\* Trials' structured eligibility

BaseTrial ==
    [ age              |-> [min |-> None, max |-> None],
      ecog             |-> [min |-> None, max |-> None],
      disease_stage    |-> [allowed |-> <<>>],
      histology        |-> [allowed |-> <<>>],
      biomarkers       |-> [required_positive |-> EmptyMap,
                            required_negative |-> <<>>],
      prior_treatments |-> [treatment_naive_required |-> FALSE],
      brain_metastases |-> [allowed |-> TRUE, controlled_only |-> FALSE] ]

RequiredPositiveValues ==
    { [b \in {"EGFR"} |-> <<L858R, Exon19del>>],
      [b \in {"EGFR"} |-> <<l858r>>],
      [b \in {"EGFR"} |-> <<positive>>],
      [b \in {"EGFR"} |-> <<Positive>>],
      [b \in {"EGFR"} |-> <<L858R, positive>>],
      [b \in {"EGFR", "KRAS"} |-> IF b = "EGFR" THEN <<T790M>> ELSE <<G12C>>] }

RequiredNegativeValues == { <<"EGFR">>, <<"EGFR", "KRAS">> }

Trials ==
    {BaseTrial}
    \cup { [BaseTrial EXCEPT !.age = [min |-> lo, max |-> hi]] :
             lo \in {None, Some(TrialAgeMin)}, hi \in {None, Some(TrialAgeMax)} }
    \cup { [BaseTrial EXCEPT !.ecog = [min |-> lo, max |-> hi]] :
             lo \in {None, Some(TrialEcogMin)}, hi \in {None, Some(TrialEcogMax)} }
    \cup { [BaseTrial EXCEPT !.disease_stage.allowed = a] :
             a \in { <<StageIV>>, <<StageIIIB, StageIV>> } }
    \cup { [BaseTrial EXCEPT !.histology.allowed = a] :
             a \in { <<squamous>>, <<NonSquamous>>, <<large_cell, Squamous>> } }
    \cup { [BaseTrial EXCEPT !.biomarkers.required_positive = r] :
             r \in RequiredPositiveValues }
    \cup { [BaseTrial EXCEPT !.biomarkers.required_negative = r] :
             r \in RequiredNegativeValues }
    \cup { [BaseTrial EXCEPT !.prior_treatments.treatment_naive_required = TRUE] }
    \cup { [BaseTrial EXCEPT !.brain_metastases = [allowed |-> a, controlled_only |-> c]] :
             a \in BOOLEAN, c \in BOOLEAN }

-----------------------------------------------------------------------------
\* Quiz handlers that produce profile fields

\* An update that drops the spread of the previous profile
updateProfile_FromInitial(prev, field, value) ==
    [initialProfile EXCEPT ![field] = value]

\* MatchQuiz.updateProfile: replaces the one named field
updateProfile(prev, field, value) == [prev EXCEPT ![field] = value]

\* Texts typed into the age input: sequences of decimal digits
AgeTexts == { <<>>, <<0>>, <<1, 7>>, <<4, 0>>, <<8, 0>> }

RECURSIVE parseInt(_)
parseInt(text) ==
    IF text = <<>> THEN 0
    ELSE 10 * parseInt(SubSeq(text, 1, Len(text) - 1)) + text[Len(text)]

\* DiagnosisStep age input: e.target.value ? parseInt(e.target.value) : null
AgeInputValue(text) == IF text # <<>> THEN Some(parseInt(text)) ELSE None

brainMetsOptions == {"none", "stable", "active", "unknown"}

\* A button that stores "no brain metastases" for every answer but stable
\* and active
BrainMetastasesFor_UnknownIsFalse(option) ==
    IF option = "stable" \/ option = "active" THEN Some(TRUE) ELSE Some(FALSE)

\* HealthStatusStep brain-metastases button: the value of brain_metastases
\* stored next to brain_mets_status
BrainMetastasesFor(option) ==
    IF option = "none" THEN Some(FALSE)
    ELSE IF option = "stable" \/ option = "active" THEN Some(TRUE)
    ELSE None

-----------------------------------------------------------------------------
\* Field verdicts of StructuredEligibilityDisplay

MatchStatus == {"match", "mismatch", "unknown", "warning"}

\* patientProfile?.<field> for a nullable field
ProfileField(pp, field) == IF IsSome(pp) THEN Val(pp)[field] ELSE None

\* patientProfile?.biomarkers?.[biomarker]
PatientBiomarker(pp, biomarker) ==
    IF IsSome(pp) /\ biomarker \in DOMAIN Val(pp).biomarkers
    THEN Some(Val(pp).biomarkers[biomarker])
    ELSE None

\* indicators.some(p => values.includes(p))
SomeIncluded(indicators, values) ==
    \E i \in 1..Len(indicators) : indicators[i] \in Elems(values)

getAgeStatus(pp, e) ==
    LET age == ProfileField(pp, "age") IN
    IF ~IsSome(age) \/ Val(age) = 0 THEN "unknown"
    ELSE IF IsSome(e.age.min) /\ Val(age) < Val(e.age.min) THEN "mismatch"
    ELSE IF IsSome(e.age.max) /\ Val(age) > Val(e.age.max) THEN "mismatch"
    ELSE "match"


\* Variant of getEcogStatus without the null check: a missing ECOG status is
\* compared as the number 0.
getEcogStatus_NullAsZero(pp, e) ==
    LET ecog == ProfileField(pp, "ecog_status")
        v    == IF IsSome(ecog) THEN Val(ecog) ELSE 0
    IN  IF IsSome(e.ecog.max) /\ v > Val(e.ecog.max) THEN "mismatch"
        ELSE IF IsSome(e.ecog.min) /\ v < Val(e.ecog.min) THEN "mismatch"
        ELSE "match"

getEcogStatus(pp, e) ==
    LET ecog == ProfileField(pp, "ecog_status") IN
    IF ~IsSome(ecog) THEN "unknown"
    ELSE IF IsSome(e.ecog.max) /\ Val(ecog) > Val(e.ecog.max) THEN "mismatch"
    ELSE IF IsSome(e.ecog.min) /\ Val(ecog) < Val(e.ecog.min) THEN "mismatch"
    ELSE "match"

\* null when neither bound is given, otherwise the formatted range
formatAge(e) ==
    IF IsSome(e.age.min) \/ IsSome(e.age.max)
    THEN Some(<<e.age.min, e.age.max>>) ELSE None

formatEcog(e) ==
    IF IsSome(e.ecog.min) \/ IsSome(e.ecog.max)
    THEN Some(<<e.ecog.min, e.ecog.max>>) ELSE None


\* Variant of StageStatus that reports a stage outside the list as a hard
\* mismatch.
StageStatus_HardMismatch(pp, e) ==
    LET stage == ProfileField(pp, "stage") IN
    IF IsSome(stage) /\ Val(stage) # <<>>
    THEN IF \E i \in 1..Len(e.disease_stage.allowed) :
               toUpperCase(e.disease_stage.allowed[i]) = toUpperCase(Val(stage))
         THEN "match" ELSE "mismatch"
    ELSE "unknown"

StageStatus(pp, e) ==
    LET stage == ProfileField(pp, "stage") IN
    IF IsSome(stage) /\ Val(stage) # <<>>
    THEN IF \E i \in 1..Len(e.disease_stage.allowed) :
               toUpperCase(e.disease_stage.allowed[i]) = toUpperCase(Val(stage))
         THEN "match" ELSE "warning"
    ELSE "unknown"


\* Variant of RequiredPositiveStatus that compares values without folding
\* their case.
RequiredPositiveStatus_CaseSensitive(pp, biomarker, mutations) ==
    LET patientBiomarker == PatientBiomarker(pp, biomarker) IN
    IF ~IsSome(patientBiomarker) THEN "unknown"
    ELSE LET patientValues  == Val(patientBiomarker)
             requiredValues == mutations
         IN  IF SomeIncluded(positiveIndicators, requiredValues)
             THEN IF SomeIncluded(positiveIndicators, patientValues)
                  THEN "match" ELSE "mismatch"
             ELSE IF SomeIncluded(requiredValues, patientValues) THEN "match"
             ELSE IF SomeIncluded(positiveIndicators, patientValues) THEN "warning"
             ELSE "mismatch"

\* Variant of RequiredPositiveStatus whose generic branch accepts only a
\* patient value that is itself listed in the requirement.
RequiredPositiveStatus_SameWord(pp, biomarker, mutations) ==
    LET patientBiomarker == PatientBiomarker(pp, biomarker) IN
    IF ~IsSome(patientBiomarker) THEN "unknown"
    ELSE LET patientValues  == LowerAll(Val(patientBiomarker))
             requiredValues == LowerAll(mutations)
         IN  IF SomeIncluded(positiveIndicators, requiredValues)
             THEN IF SomeIncluded(requiredValues, patientValues)
                  THEN "match" ELSE "mismatch"
             ELSE IF SomeIncluded(requiredValues, patientValues) THEN "match"
             ELSE IF SomeIncluded(positiveIndicators, patientValues) THEN "warning"
             ELSE "mismatch"

HistologyStatus(pp, e) ==
    LET histology == ProfileField(pp, "histology") IN
    IF IsSome(histology) /\ Val(histology) # <<>>
    THEN IF \E i \in 1..Len(e.histology.allowed) :
               \/ includes(toLowerCase(e.histology.allowed[i]), toLowerCase(Val(histology)))
               \/ includes(toLowerCase(Val(histology)), toLowerCase(e.histology.allowed[i]))
         THEN "match" ELSE "warning"
    ELSE "unknown"

RequiredPositiveStatus(pp, biomarker, mutations) ==
    LET patientBiomarker == PatientBiomarker(pp, biomarker) IN
    IF ~IsSome(patientBiomarker) THEN "unknown"
    ELSE LET patientValues  == LowerAll(Val(patientBiomarker))
             requiredValues == LowerAll(mutations)
         IN  IF SomeIncluded(positiveIndicators, requiredValues)
             THEN IF SomeIncluded(positiveIndicators, patientValues)
                  THEN "match" ELSE "mismatch"
             ELSE IF SomeIncluded(requiredValues, patientValues) THEN "match"
             ELSE IF SomeIncluded(positiveIndicators, patientValues) THEN "warning"
             ELSE "mismatch"

RequiredNegativeStatus(pp, biomarker) ==
    LET patientBiomarker == PatientBiomarker(pp, biomarker) IN
    IF ~IsSome(patientBiomarker) THEN "unknown"
    ELSE LET patientValues == LowerAll(Val(patientBiomarker))
         IN  IF SomeIncluded(negativeIndicators, patientValues) THEN "match"
             ELSE IF SomeIncluded(positiveIndicators, patientValues) THEN "mismatch"
             ELSE "unknown"


\* Variant of TreatmentNaiveStatus that reads a missing list as an empty one:
\* (patientProfile?.prior_treatments || []).length === 0
TreatmentNaiveStatus_AbsentAsEmpty(pp) ==
    LET prior == ProfileField(pp, "prior_treatments")
        list  == IF IsSome(prior) THEN Val(prior) ELSE <<>>
    IN  IF Len(list) = 0 THEN "match" ELSE "mismatch"

TreatmentNaiveStatus(pp) ==
    LET prior == ProfileField(pp, "prior_treatments") IN
    IF IsSome(prior)
    THEN IF Len(Val(prior)) = 0 THEN "match" ELSE "mismatch"
    ELSE "unknown"

BrainMetastasesStatus(pp, e) ==
    LET bm == ProfileField(pp, "brain_metastases") IN
    IF ~IsSome(bm) THEN "unknown"
    ELSE IF Val(bm) /\ ~e.brain_metastases.allowed THEN "mismatch"
    ELSE "match"

\* CriteriaItem: renders nothing when value is null
CriteriaItem(value, status) == [status |-> status, rendered |-> IsSome(value)]

\* One render of the component: the criteria items it builds.  An item that
\* the JSX does not build at all is None.
Display(e, pp) ==
    [ age   |-> CriteriaItem(formatAge(e), getAgeStatus(pp, e)),
      ecog  |-> CriteriaItem(formatEcog(e), getEcogStatus(pp, e)),
      stage |-> IF Len(e.disease_stage.allowed) > 0
                THEN Some(CriteriaItem(Some(e.disease_stage.allowed), StageStatus(pp, e)))
                ELSE None,
      histology |-> IF Len(e.histology.allowed) > 0
                    THEN Some(CriteriaItem(Some(e.histology.allowed), HistologyStatus(pp, e)))
                    ELSE None,
      required_positive |->
          [b \in DOMAIN e.biomarkers.required_positive |->
              CriteriaItem(Some(e.biomarkers.required_positive[b]),
                           RequiredPositiveStatus(pp, b, e.biomarkers.required_positive[b]))],
      required_negative |->
          [i \in 1..Len(e.biomarkers.required_negative) |->
              CriteriaItem(Some(e.biomarkers.required_negative[i]),
                           RequiredNegativeStatus(pp, e.biomarkers.required_negative[i]))],
      treatment_naive |->
          IF e.prior_treatments.treatment_naive_required
          THEN Some(CriteriaItem(Some("Required"), TreatmentNaiveStatus(pp)))
          ELSE None,
      brain_metastases |->
          CriteriaItem(Some(e.brain_metastases), BrainMetastasesStatus(pp, e)) ]

-----------------------------------------------------------------------------
\* State machine: the display re-renders whenever its props change

\* MatchQuiz as mounted: useState(0), useState(initialProfile), and the
\* BiomarkersStep's useState(null), useState(false)
QuizMounted ==
    /\ currentStep = 0
    /\ profile = initialProfile
    /\ expandedMutation = Null
    /\ unknownBiomarkers = FALSE
    /\ isLoading = FALSE
    /\ submitted = None

\* CompetitorQuiz.initialState (the fields of the first step)
initialState == [inputMethod |-> Null, nctId |-> <<>>, description |-> <<>>]

\* The state of a page's components as mounted; results, error and the
\* network are as they are before any submission
ComponentsMounted ==
    /\ description = <<>>
    /\ formLocation = <<>>
    /\ formError = Null
    /\ loading = FALSE
    /\ usedV2 = FALSE
    /\ viewState = "quiz"
    /\ competitorStep = 0
    /\ quizState = initialState
    /\ sortBy = "similarity"
    /\ sortedCompetitors = <<>>
    /\ error = Null
    /\ results = None
    /\ pc = "idle"
    /\ requests = <<>>
    /\ response = None

\* No page of the three is mounted
PagesIdle ==
    /\ page = "none"
    /\ ComponentsMounted

\* TrialsPage is not mounted
TrialsIdle ==
    /\ pageNumber = 1
    /\ phase = ""
    /\ search = ""
    /\ data = None
    /\ trialsLoading = TRUE
    /\ trialsError = Null
    /\ trialRequests = <<>>

\* CompetitorQuiz as the manual method is chosen on its first step
ManualIdle ==
    /\ manualStep = 0
    /\ ageMin = None
    /\ ageMax = None
    /\ target_locations = <<>>
    /\ structuredProfile = None

\* No engine call has been made
EngineIdle ==
    /\ evaluation = None
    /\ comparison = None

Init ==
    /\ patientProfile = None
    /\ eligibility \in Trials
    /\ items = Display(eligibility, patientProfile)
    /\ QuizMounted
    /\ EngineIdle
    /\ PagesIdle
    /\ TrialsIdle
    /\ ManualIdle

\* The trial page loads another trial's structured eligibility
LoadTrial(e) ==
    /\ eligibility' = e
    /\ UNCHANGED patientProfile
    /\ items' = Display(eligibility', patientProfile')
    /\ OutsideDisplay

\* The caller passes a patient profile
PassProfile(p) ==
    /\ patientProfile' = Some(p)
    /\ UNCHANGED eligibility
    /\ items' = Display(eligibility', patientProfile')
    /\ OutsideDisplay

\* DiagnosisStep: the age input changes
AgeOnChange(text) ==
    /\ IsSome(patientProfile)
    /\ patientProfile' = Some(updateProfile(Val(patientProfile), "age", AgeInputValue(text)))
    /\ UNCHANGED eligibility
    /\ items' = Display(eligibility', patientProfile')
    /\ OutsideDisplay

\* HealthStatusStep: a brain-metastases option is clicked
BrainMetsOnClick(option) ==
    /\ IsSome(patientProfile)
    /\ patientProfile' =
         Some(updateProfile(updateProfile(Val(patientProfile), "brain_mets_status", option),
                            "brain_metastases", BrainMetastasesFor(option)))
    /\ UNCHANGED eligibility
    /\ items' = Display(eligibility', patientProfile')
    /\ OutsideDisplay

Next ==
    \/ \E e \in Trials : LoadTrial(e)
    \/ \E p \in ProfileInputs : PassProfile(p)
    \/ \E text \in AgeTexts : AgeOnChange(text)
    \/ \E option \in brainMetsOptions : BrainMetsOnClick(option)

Spec == Init /\ [][Next]_vars

\* The displayed items are always the render of the current props
ItemsCurrent == items = Display(eligibility, patientProfile)

-----------------------------------------------------------------------------
\* Vocabulary of the properties

\* The patient's value for a nullable field is missing (null or undefined,
\* or no profile at all)
Absent(field) == ~IsSome(ProfileField(patientProfile, field))

EqualIgnoringCase(a, b) ==
    /\ Len(a) = Len(b)
    /\ \A i \in 1..Len(a) : LowerChar(a[i]) = LowerChar(b[i])

IsPositiveIndicator(v) ==
    \E i \in 1..Len(positiveIndicators) : EqualIgnoringCase(v, positiveIndicators[i])

IsNegativeIndicator(v) ==
    \E i \in 1..Len(negativeIndicators) : EqualIgnoringCase(v, negativeIndicators[i])

\* Names of specific mutations, as opposed to generic indicator words
MutationNames == {L858R, Exon19del, T790M, G12C}

IsSpecificMutation(v) == \E m \in MutationNames : EqualIgnoringCase(v, m)

\* The required set contains a generic positive indicator
GenericRequirement(mutations) == \E r \in Elems(mutations) : IsPositiveIndicator(r)

\* Some reported value is in the required set, ignoring case
Intersects(values, mutations) ==
    \E v \in Elems(values) : \E r \in Elems(mutations) : EqualIgnoringCase(v, r)

ReportsGenericPositive(values) == \E v \in Elems(values) : IsPositiveIndicator(v)

ReportsNegative(values) == \E v \in Elems(values) : IsNegativeIndicator(v)

EcogBoundSpecified == IsSome(eligibility.ecog.min) \/ IsSome(eligibility.ecog.max)

AgeBoundSpecified == IsSome(eligibility.age.min) \/ IsSome(eligibility.age.max)

RequiredPositive == eligibility.biomarkers.required_positive

RequiredNegative == eligibility.biomarkers.required_negative

-----------------------------------------------------------------------------
\* Properties

\* C1: when the trial specifies an ECOG bound (min or max) and the patient's
\* ECOG status is absent, the ECOG verdict is "unknown", never "match".
C1_AbsentEcogIsUnknown ==
    (EcogBoundSpecified /\ Absent("ecog_status")) => items.ecog.status = "unknown"

\* A profile without an ECOG status is shown against a trial with an ECOG
\* bound, and the ECOG item is rendered as unknown.
C1_Witness ==
    /\ IsSome(patientProfile)
    /\ EcogBoundSpecified
    /\ Absent("ecog_status")
    /\ items.ecog.rendered
    /\ items.ecog.status = "unknown"

\* C2: a field for which the trial specifies no constraint never gets the
\* verdict "match": with both age bounds absent the age verdict is "unknown",
\* and with both ECOG bounds absent the ECOG verdict is "unknown", whatever
\* the patient reports.
C2_UnconstrainedFieldIsUnknown ==
    /\ ~AgeBoundSpecified  => items.age.status = "unknown"
    /\ ~EcogBoundSpecified => items.ecog.status = "unknown"

\* C3: a patient who reports a specific mutation for a biomarker that the
\* trial lists in required_negative gets the verdict "mismatch" for that
\* biomarker, never "unknown" or "match".
C3_MutationConflictsWithRequiredNegative ==
    \A i \in 1..Len(RequiredNegative) :
        LET reported == PatientBiomarker(patientProfile, RequiredNegative[i]) IN
        (/\ IsSome(reported)
         /\ Val(reported) # <<>>
         /\ \A v \in Elems(Val(reported)) : IsSpecificMutation(v))
        => items.required_negative[i].status = "mismatch"

\* C4: for each biomarker in required_negative the verdict is "match" if the
\* patient reports an explicit negative / wild-type indicator, "mismatch" if
\* the patient reports the biomarker positive (a positive indicator or a
\* mutation of that biomarker), and "unknown" in every other case, including
\* when the patient reports nothing for it.
C4_RequiredNegativeVerdict ==
    \A i \in 1..Len(RequiredNegative) :
        LET reported == PatientBiomarker(patientProfile, RequiredNegative[i])
            values   == IF IsSome(reported) THEN Val(reported) ELSE <<>>
        IN  items.required_negative[i].status =
              IF ReportsNegative(values) THEN "match"
              ELSE IF \E v \in Elems(values) :
                          IsPositiveIndicator(v) \/ IsSpecificMutation(v)
                   THEN "mismatch"
              ELSE "unknown"

C6_GenericRequirementMatch ==
    \A b \in DOMAIN RequiredPositive :
        LET reported == PatientBiomarker(patientProfile, b) IN
        (/\ GenericRequirement(RequiredPositive[b])
         /\ IsSome(reported)
         /\ ReportsGenericPositive(Val(reported)))
        => items.required_positive[b].status = "match"

\* A generic requirement is matched by a positive indicator that is not one
\* of the words the requirement lists.
C6_Witness ==
    \E b \in DOMAIN RequiredPositive :
        LET reported == PatientBiomarker(patientProfile, b) IN
        /\ GenericRequirement(RequiredPositive[b])
        /\ IsSome(reported)
        /\ ReportsGenericPositive(Val(reported))
        /\ ~Intersects(Val(reported), RequiredPositive[b])
        /\ items.required_positive[b].status = "match"

\* C7: the brain-metastases verdict is "mismatch" only if the patient's
\* brain metastases are active and the trial disallows brain metastases
\* outright; stable, absent or unknown brain metastases never get "mismatch".
C7_MismatchOnlyForActive ==
    items.brain_metastases.status = "mismatch" =>
        /\ IsSome(patientProfile)
        /\ Val(patientProfile).brain_mets_status = "active"
        /\ ~eligibility.brain_metastases.allowed

\* C8: when the trial requires treatment-naive patients, the verdict is
\* "mismatch" if prior_treatments is non-empty, "match" if it is empty, and
\* "unknown" if prior_treatments is absent.
C8_TreatmentNaiveVerdict ==
    eligibility.prior_treatments.treatment_naive_required =>
        /\ IsSome(items.treatment_naive)
        /\ LET status == Val(items.treatment_naive).status
               prior  == ProfileField(patientProfile, "prior_treatments")
           IN  /\ (IsSome(prior) /\ Val(prior) # <<>>) => status = "mismatch"
               /\ (IsSome(prior) /\ Val(prior) = <<>>) => status = "match"
               /\ ~IsSome(prior) => status = "unknown"

\* A profile whose prior_treatments is missing is shown against a trial that
\* requires treatment-naive patients, and the item is unknown.
C8_Witness ==
    /\ eligibility.prior_treatments.treatment_naive_required
    /\ IsSome(patientProfile)
    /\ Absent("prior_treatments")
    /\ IsSome(items.treatment_naive)
    /\ Val(items.treatment_naive).status = "unknown"

\* C9: for a patient whose age is present (any entered number, including 0)
\* and an age requirement with at least one bound, the verdict is "mismatch"
\* if the age is below the minimum or above the maximum; the verdict is
\* "unknown" if the patient's age is absent.
C9_AgeOutsideBoundsIsMismatch ==
    AgeBoundSpecified =>
        LET age == ProfileField(patientProfile, "age") IN
        /\ (/\ IsSome(age)
            /\ \/ IsSome(eligibility.age.min) /\ Val(age) < Val(eligibility.age.min)
               \/ IsSome(eligibility.age.max) /\ Val(age) > Val(eligibility.age.max))
           => items.age.status = "mismatch"
        /\ ~IsSome(age) => items.age.status = "unknown"

C11_HistologyVerdict ==
    Len(eligibility.histology.allowed) > 0 =>
        /\ IsSome(items.histology)
        /\ LET status    == Val(items.histology).status
               histology == ProfileField(patientProfile, "histology")
               present   == IsSome(histology) /\ Val(histology) # EmptyString
               member    == \E a \in Elems(eligibility.histology.allowed) :
                               EqualIgnoringCase(a, Val(histology))
           IN  /\ status = "match" => (present /\ member)
               /\ (present /\ ~member) => status = "warning"
               /\ ~present => status = "unknown"

-----------------------------------------------------------------------------
\* MatchQuiz and its step components

TOTAL_STEPS == 5

Pdl1Below1  == <<"<","1","%">>
Pdl1High    == <<">","=","5","0","%">>
unknownText == <<"u","n","k","n","o","w","n">>

\* Options the user picks from (samples of the steps' option lists)
StageChoices     == {StageIV}
HistologyChoices == {squamous}
QuizAgeTexts     == {<<>>, <<4, 0>>}
driverMutations  == [b \in {"EGFR"} |-> <<L858R, Exon19del>>]
pdl1Options      == {Pdl1Below1, unknownText}
lineOptions      == {"treatment_naive", "2nd"}
treatmentOptions == {"tki"}
DateChoices      == {Null, "2024-01-15"}
EcogChoices      == {1}
OrganChoices     == {None, Some(TRUE)}
LocationChoices  == {Null, "Boston, MA"}
DistanceChoices  == {None, Some(50)}

\* delete obj[key]
DeleteKey(obj, key) == [b \in DOMAIN obj \ {key} |-> obj[b]]

\* obj[key] = value
SetKey(obj, key, value) ==
    [b \in DOMAIN obj \cup {key} |-> IF b = key THEN value ELSE obj[b]]

\* arr.filter(s => s !== x)
Without(arr, x) == SelectSeq(arr, LAMBDA s : s # x)

\* BiomarkersStep.toggleBiomarker(id, subtype): the biomarkers it stores
toggleSubtype(biomarkers, id, subtype) ==
    IF id \notin DOMAIN biomarkers
    THEN SetKey(biomarkers, id, <<subtype>>)
    ELSE IF subtype \in Elems(biomarkers[id])
    THEN IF Len(Without(biomarkers[id], subtype)) = 0
         THEN DeleteKey(biomarkers, id)
         ELSE SetKey(biomarkers, id, Without(biomarkers[id], subtype))
    ELSE SetKey(biomarkers, id, Append(biomarkers[id], subtype))

\* A setPdl1 that stores an empty list for the "unknown" option
setPdl1_UnknownAsEmpty(biomarkers, value) ==
    SetKey(biomarkers, "PD-L1", IF value = unknownText THEN <<>> ELSE <<value>>)

\* BiomarkersStep.setPdl1(value): the biomarkers it stores
setPdl1(biomarkers, value) ==
    IF value = unknownText
    THEN DeleteKey(biomarkers, "PD-L1")
    ELSE SetKey(biomarkers, "PD-L1", <<value>>)

\* TreatmentHistoryStep.toggleTreatment(treatmentId): the list it stores
toggleTreatment(priorTreatments, treatmentId) ==
    IF treatmentId \in Elems(priorTreatments)
    THEN Without(priorTreatments, treatmentId)
    ELSE Append(priorTreatments, treatmentId)

\* A Continue button that is never disabled
canProceed_AlwaysTrue == TRUE

\* MatchQuiz.canProceed
canProceed ==
    CASE currentStep = 0 -> IsSome(profile.stage)
      [] currentStep = 2 -> profile.line_of_therapy # Null
      [] currentStep = 3 -> IsSome(profile.ecog_status)
      [] OTHER -> TRUE

\* The prior-treatment buttons and the date input are rendered only for a
\* line of therapy other than treatment-naive
TreatmentsShown ==
    profile.line_of_therapy # Null /\ profile.line_of_therapy # "treatment_naive"

\* A step component calls onUpdate(field, value) while its step is shown
UpdateField(step, field, value) ==
    /\ currentStep = step
    /\ profile' = updateProfile(profile, field, value)
    /\ submitted' = None
    /\ UNCHANGED <<currentStep, expandedMutation, unknownBiomarkers, isLoading>>
    /\ OutsideQuiz

\* DiagnosisStep
QuizAgeOnChange(text) == UpdateField(0, "age", AgeInputValue(text))

HistologyOnClick(value) == UpdateField(0, "histology", Some(value))

StageOnClick(value) == UpdateField(0, "stage", Some(value))

\* BiomarkersStep: a mutation button is clicked (toggleBiomarker(id))
ToggleMutation(id) ==
    /\ currentStep = 1
    /\ ~unknownBiomarkers
    /\ IF id \in DOMAIN profile.biomarkers
       THEN /\ profile' = updateProfile(profile, "biomarkers",
                                        DeleteKey(profile.biomarkers, id))
            /\ expandedMutation' = Null
       ELSE /\ expandedMutation' = IF expandedMutation = id THEN Null ELSE id
            /\ UNCHANGED profile
    /\ submitted' = None
    /\ UNCHANGED <<currentStep, unknownBiomarkers, isLoading>>
    /\ OutsideQuiz

\* BiomarkersStep: a subtype button of the expanded, unselected mutation is
\* clicked (toggleBiomarker(id, subtype))
ToggleSubtype(id, subtype) ==
    /\ currentStep = 1
    /\ ~unknownBiomarkers
    /\ expandedMutation = id
    /\ id \notin DOMAIN profile.biomarkers
    /\ profile' = updateProfile(profile, "biomarkers",
                                toggleSubtype(profile.biomarkers, id, subtype))
    /\ expandedMutation' = Null
    /\ submitted' = None
    /\ UNCHANGED <<currentStep, unknownBiomarkers, isLoading>>
    /\ OutsideQuiz

\* BiomarkersStep: a PD-L1 option is clicked
Pdl1OnClick(value) ==
    /\ ~unknownBiomarkers
    /\ UpdateField(1, "biomarkers", setPdl1(profile.biomarkers, value))

\* BiomarkersStep: the chip of a selected biomarker is removed
RemoveChip(key) ==
    /\ ~unknownBiomarkers
    /\ key \in DOMAIN profile.biomarkers
    /\ UpdateField(1, "biomarkers", DeleteKey(profile.biomarkers, key))

\* BiomarkersStep.handleUnknown: "I don't know my biomarker status"
HandleUnknown ==
    /\ currentStep = 1
    /\ ~unknownBiomarkers
    /\ unknownBiomarkers' = TRUE
    /\ profile' = updateProfile(profile, "biomarkers", EmptyMap)
    /\ submitted' = None
    /\ UNCHANGED <<currentStep, expandedMutation, isLoading>>
    /\ OutsideQuiz

\* BiomarkersStep: "I know some of my biomarkers"
KnowSomeBiomarkers ==
    /\ currentStep = 1
    /\ unknownBiomarkers
    /\ unknownBiomarkers' = FALSE
    /\ submitted' = None
    /\ UNCHANGED <<currentStep, profile, expandedMutation, isLoading>>
    /\ OutsideQuiz

\* TreatmentHistoryStep
LineOnClick(value) == UpdateField(2, "line_of_therapy", value)

ToggleTreatment(treatmentId) ==
    /\ TreatmentsShown
    /\ UpdateField(2, "prior_treatments",
                   Some(toggleTreatment(Val(profile.prior_treatments), treatmentId)))

LastTreatmentDateOnChange(value) ==
    /\ TreatmentsShown
    /\ UpdateField(2, "last_treatment_date", value)

PriorMalignancyOnClick(value) == UpdateField(2, "prior_malignancy", Some(value))

\* HealthStatusStep
EcogOnClick(value) == UpdateField(3, "ecog_status", Some(value))

QuizBrainMetsOnClick(option) ==
    /\ currentStep = 3
    /\ profile' = updateProfile(updateProfile(profile, "brain_mets_status", option),
                                "brain_metastases", BrainMetastasesFor(option))
    /\ submitted' = None
    /\ UNCHANGED <<currentStep, expandedMutation, unknownBiomarkers, isLoading>>
    /\ OutsideQuiz

OrganFunctionOnClick(value) == UpdateField(3, "organ_function_issues", value)

\* LocationStep
LocationOnChange(value) == UpdateField(4, "location", value)

TravelDistanceOnClick(value) == UpdateField(4, "travel_distance_miles", value)

\* MatchQuiz.handleNext behind the Continue button (disabled unless canProceed);
\* the step component shown is replaced, so a BiomarkersStep mounts afresh
HandleNext ==
    /\ currentStep < TOTAL_STEPS - 1
    /\ canProceed
    /\ currentStep' = currentStep + 1
    /\ expandedMutation' = Null
    /\ unknownBiomarkers' = FALSE
    /\ submitted' = None
    /\ UNCHANGED <<profile, isLoading>>
    /\ OutsideQuiz

\* MatchQuiz.handleBack behind the Back button (disabled on the first step)
HandleBack ==
    /\ currentStep > 0
    /\ currentStep' = currentStep - 1
    /\ expandedMutation' = Null
    /\ unknownBiomarkers' = FALSE
    /\ submitted' = None
    /\ UNCHANGED <<profile, isLoading>>
    /\ OutsideQuiz

\* MatchQuiz.handleSubmit behind the submit button of the last step (disabled
\* while isLoading); the page's handler sets loading
HandleSubmit ==
    /\ currentStep = TOTAL_STEPS - 1
    /\ ~isLoading
    /\ submitted' = Some(profile)
    /\ isLoading' = TRUE
    /\ UNCHANGED <<currentStep, profile, expandedMutation, unknownBiomarkers>>
    /\ OutsideQuiz

\* The page's request fails: loading ends and the quiz stays as it was
RequestFails ==
    /\ isLoading
    /\ isLoading' = FALSE
    /\ submitted' = None
    /\ UNCHANGED <<currentStep, profile, expandedMutation, unknownBiomarkers>>
    /\ OutsideQuiz

\* The page's request succeeds: the results replace the quiz, and Start Over
\* mounts a new MatchQuiz
StartOver ==
    /\ isLoading
    /\ currentStep' = 0
    /\ profile' = initialProfile
    /\ expandedMutation' = Null
    /\ unknownBiomarkers' = FALSE
    /\ isLoading' = FALSE
    /\ submitted' = None
    /\ OutsideQuiz

InitQuiz ==
    /\ patientProfile = None
    /\ eligibility = BaseTrial
    /\ items = Display(eligibility, patientProfile)
    /\ QuizMounted
    /\ EngineIdle
    /\ PagesIdle
    /\ TrialsIdle
    /\ ManualIdle

NextQuiz ==
    \/ \E text \in QuizAgeTexts : QuizAgeOnChange(text)
    \/ \E value \in HistologyChoices : HistologyOnClick(value)
    \/ \E value \in StageChoices : StageOnClick(value)
    \/ \E id \in DOMAIN driverMutations : ToggleMutation(id)
    \/ \E id \in DOMAIN driverMutations :
          \E subtype \in Elems(driverMutations[id]) : ToggleSubtype(id, subtype)
    \/ \E value \in pdl1Options : Pdl1OnClick(value)
    \/ \E key \in DOMAIN driverMutations \cup {"PD-L1"} : RemoveChip(key)
    \/ HandleUnknown
    \/ KnowSomeBiomarkers
    \/ \E value \in lineOptions : LineOnClick(value)
    \/ \E treatmentId \in treatmentOptions : ToggleTreatment(treatmentId)
    \/ \E value \in DateChoices : LastTreatmentDateOnChange(value)
    \/ \E value \in BOOLEAN : PriorMalignancyOnClick(value)
    \/ \E value \in EcogChoices : EcogOnClick(value)
    \/ \E option \in brainMetsOptions : QuizBrainMetsOnClick(option)
    \/ \E value \in OrganChoices : OrganFunctionOnClick(value)
    \/ \E value \in LocationChoices : LocationOnChange(value)
    \/ \E value \in DistanceChoices : TravelDistanceOnClick(value)
    \/ HandleNext
    \/ HandleBack
    \/ HandleSubmit
    \/ RequestFails
    \/ StartOver

SpecQuiz == InitQuiz /\ [][NextQuiz]_vars

\* The value of biomarkers once the user has deselected every biomarker
NoBiomarkersReported ==
    DeleteKey(toggleSubtype(initialProfile.biomarkers, "EGFR", L858R), "EGFR")

\* C12: the value the quiz stores for an "unknown" answer differs from the
\* value it stores for a "none / negative" answer: after "I don't know my
\* biomarker status" the stored biomarkers are not those of a user reporting
\* no biomarkers, and an unknown or unanswered brain-metastases status is not
\* stored as "no brain metastases".
C12_UnknownDistinctFromNone ==
    /\ unknownBiomarkers => profile.biomarkers # NoBiomarkersReported
    /\ profile.brain_mets_status \in {Null, "unknown"} =>
           profile.brain_metastases # Some(FALSE)

-----------------------------------------------------------------------------
\* Eligibility Evaluator of the matching engine: the aggregate verdict

EvaluatedFields == {"age", "ecog", "stage", "biomarkers", "prior_treatments"}

\* Verdict of one field; "unspecified" when the trial states no constraint
FieldVerdicts == {"unspecified", "match", "mismatch", "unknown", "warning"}

VerdictInputs == [EvaluatedFields -> FieldVerdicts]

Specified(verdicts) == {f \in EvaluatedFields : verdicts[f] # "unspecified"}

\* The gating fields, stage and biomarker, when both are specified, must
\* include a match
GatingSatisfied(verdicts) ==
    {"stage", "biomarkers"} \subseteq Specified(verdicts) =>
        (verdicts["stage"] = "match" \/ verdicts["biomarkers"] = "match")

\* An aggregate that takes a mismatch as excluding only on the gating fields
aggregate_GatingMismatchOnly(verdicts) ==
    IF \E f \in {"stage", "biomarkers"} : verdicts[f] = "mismatch"
    THEN "ineligible"
    ELSE IF Specified(verdicts) = {} THEN "uncertain"
    ELSE IF /\ \A f \in {"stage", "biomarkers"} \cap Specified(verdicts) :
                  verdicts[f] \in {"match", "unknown"}
            /\ GatingSatisfied(verdicts)
    THEN "eligible"
    ELSE "uncertain"

\* Aggregate verdict: ineligible on any mismatch; uncertain when no constraint
\* is specified; eligible when every specified field is match or unknown and
\* the gating fields are satisfied; otherwise uncertain
aggregate(verdicts) ==
    IF \E f \in Specified(verdicts) : verdicts[f] = "mismatch"
    THEN "ineligible"
    ELSE IF Specified(verdicts) = {} THEN "uncertain"
    ELSE IF /\ \A f \in Specified(verdicts) : verdicts[f] \in {"match", "unknown"}
            /\ GatingSatisfied(verdicts)
    THEN "eligible"
    ELSE "uncertain"

\* evaluate(patient, trial) answers the pending call: the field verdicts are
\* those of the pair
Evaluate ==
    /\ IsSome(evaluation)
    /\ Val(evaluation).status = Null
    /\ evaluation' = Some([Val(evaluation) EXCEPT
                              !.status = aggregate(Val(evaluation).verdicts)])
    /\ UNCHANGED comparison
    /\ OutsideEngine

-----------------------------------------------------------------------------
\* Competitor Similarity Engine of the matching engine

\* Sub-scores are fractions of Unit (so that Unit stands for 1.0 and every
\* quotient below is exact); the composite score is a fraction of 10 * Unit
Unit == 2 * 2 * 3 * 5

\* Weights of the composite score, in tenths
Weights == [biomarker |-> 4, stage |-> 2, geographic |-> 2, phase |-> 2]

\* Twice the phase ordinals {1:1, 1/2:1.5, 2:2, 2/3:2.5, 3:3, 4:4}
PhaseOrdinal2 ==
    [ph \in {"1", "1/2", "2", "2/3", "3", "4"} |->
        CASE ph = "1" -> 2 [] ph = "1/2" -> 3 [] ph = "2" -> 4
          [] ph = "2/3" -> 5 [] ph = "3" -> 6 [] ph = "4" -> 8]

\* Twice the largest ordinal distance between two phases
MaxPhaseDistance2 == PhaseOrdinal2["4"] - PhaseOrdinal2["1"]

\* Reference and candidate profiles (ResearcherTrialProfile)
TargetBiomarkerChoices ==
    { EmptyMap,
      [b \in {"EGFR"} |-> <<L858R>>],
      [b \in {"EGFR"} |-> <<T790M>>],
      [b \in {"EGFR", "KRAS"} |-> IF b = "EGFR" THEN <<L858R>> ELSE <<G12C>>] }

TargetStageChoices == { {}, {"IV"}, {"IIIB", "IV"} }

TargetLocationChoices == { {}, {"CA"}, {"CA", "NY"} }

PhaseChoices == {Null, "2", "3"}

TrialProfiles ==
    [ target_biomarkers : TargetBiomarkerChoices,
      target_stages     : TargetStageChoices,
      target_locations  : TargetLocationChoices,
      phase             : PhaseChoices ]

\* |A n B| / |A u B|; the design gives no value for two empty sets, so the
\* caller supplies the one the engine uses
Jaccard(A, B, ofEmpty) ==
    IF A \cup B = {} THEN ofEmpty
    ELSE (Unit * Cardinality(A \cap B)) \div Cardinality(A \cup B)

BiomarkerValuePairs(biomarkers) ==
    { <<b, v>> : b \in DOMAIN biomarkers, v \in UNION {Elems(biomarkers[c]) : c \in DOMAIN biomarkers} }
    \cap UNION { {<<b, v>> : v \in Elems(biomarkers[b])} : b \in DOMAIN biomarkers }

\* Jaccard over biomarker names, refined to value level when both sides give
\* values for a shared name
biomarker_overlap(ref, cand, ofEmpty) ==
    LET rb == ref.target_biomarkers
        cb == cand.target_biomarkers
    IN  IF \E b \in DOMAIN rb \cap DOMAIN cb : Len(rb[b]) > 0 /\ Len(cb[b]) > 0
        THEN Jaccard(BiomarkerValuePairs(rb), BiomarkerValuePairs(cb), ofEmpty)
        ELSE Jaccard(DOMAIN rb, DOMAIN cb, ofEmpty)

stage_overlap(ref, cand, ofEmpty) ==
    Jaccard(ref.target_stages, cand.target_stages, ofEmpty)

geographic_overlap(ref, cand, ofEmpty) ==
    Jaccard(ref.target_locations, cand.target_locations, ofEmpty)

Distance(a, b) == IF a >= b THEN a - b ELSE b - a

\* A proximity that is the distance itself rather than its complement
phase_proximity_DistanceOnly(ref, cand) ==
    IF ref.phase = Null \/ cand.phase = Null THEN Unit \div 2
    ELSE (Unit * Distance(PhaseOrdinal2[ref.phase], PhaseOrdinal2[cand.phase]))
             \div MaxPhaseDistance2

\* 1 - distance / max distance; 0.5 when either phase is unspecified
phase_proximity(ref, cand) ==
    IF ref.phase = Null \/ cand.phase = Null THEN Unit \div 2
    ELSE Unit - (Unit * Distance(PhaseOrdinal2[ref.phase], PhaseOrdinal2[cand.phase]))
                    \div MaxPhaseDistance2

\* Weighted average of the four sub-scores, as a fraction of 10 * Unit
similarity_score(ref, cand, ofEmpty) ==
      Weights.biomarker  * biomarker_overlap(ref, cand, ofEmpty)
    + Weights.stage      * stage_overlap(ref, cand, ofEmpty)
    + Weights.geographic * geographic_overlap(ref, cand, ofEmpty)
    + Weights.phase      * phase_proximity(ref, cand)

\* analyze scores the candidate of the pending call against its reference
Analyze(ofEmpty) ==
    /\ IsSome(comparison)
    /\ Val(comparison).similarity_score = None
    /\ comparison' = Some([Val(comparison) EXCEPT !.similarity_score =
            Some(similarity_score(Val(comparison).reference,
                                  Val(comparison).candidate, ofEmpty))])
    /\ UNCHANGED evaluation
    /\ OutsideEngine

\* The engine is stateless: it starts with one call to serve
InitEngine ==
    /\ patientProfile = None
    /\ eligibility = BaseTrial
    /\ items = Display(eligibility, patientProfile)
    /\ QuizMounted
    /\ PagesIdle
    /\ TrialsIdle
    /\ ManualIdle
    /\ \/ /\ evaluation \in { Some([verdicts |-> v, status |-> Null]) :
                                v \in VerdictInputs }
          /\ comparison = None
       \/ /\ evaluation = None
          /\ comparison \in { Some([reference |-> r, candidate |-> c,
                                    similarity_score |-> None]) :
                                r \in TrialProfiles, c \in TrialProfiles }

NextEngine ==
    \/ Evaluate
    \/ \E ofEmpty \in {0, Unit} : Analyze(ofEmpty)

SpecEngine == InitEngine /\ [][NextEngine]_vars

\* C13: the aggregate eligibility status is never "eligible" when a specified
\* constraint has the field verdict "mismatch".
C13_NeverEligibleWithMismatch ==
    (IsSome(evaluation) /\ Val(evaluation).status = "eligible") =>
        \A f \in Specified(Val(evaluation).verdicts) :
            Val(evaluation).verdicts[f] # "mismatch"

\* An evaluation whose gating fields match and whose age is a mismatch has
\* been answered "ineligible"
C13_Witness ==
    /\ IsSome(evaluation)
    /\ Val(evaluation).verdicts["stage"] = "match"
    /\ Val(evaluation).verdicts["biomarkers"] = "match"
    /\ Val(evaluation).verdicts["age"] = "mismatch"
    /\ Val(evaluation).status = "ineligible"

\* The comparison has been scored and its candidate is an exact copy of the
\* reference
SelfComparison ==
    /\ IsSome(comparison)
    /\ IsSome(Val(comparison).similarity_score)
    /\ Val(comparison).candidate = Val(comparison).reference

\* The reference names a phase and at least one biomarker, stage and location
FullySpecified(ref) ==
    /\ ref.phase # Null
    /\ DOMAIN ref.target_biomarkers # {}
    /\ ref.target_stages # {}
    /\ ref.target_locations # {}

\* C20 as stated: the similarity_score of a reference profile against an
\* exact copy of itself equals 1.0.
C20_SelfSimilarityIsOne ==
    SelfComparison => Val(comparison).similarity_score = Some(10 * Unit)

\* C20 as amended: the similarity_score of a reference profile that names a
\* phase and at least one biomarker, stage and location, against an exact
\* copy of itself, equals 1.0.
C20_SelfSimilarityWhenSpecified ==
    (SelfComparison /\ FullySpecified(Val(comparison).reference)) =>
        Val(comparison).similarity_score = Some(10 * Unit)

\* A fully specified reference has been scored against its copy
C20_Witness ==
    /\ SelfComparison
    /\ FullySpecified(Val(comparison).reference)
    /\ Val(comparison).similarity_score = Some(10 * Unit)

-----------------------------------------------------------------------------
\* Free text, API responses and the ranked trial list

\* Fewest characters of a free-text description
MinDescriptionLength == 20

\* Fewest characters of an NCT id
MinNctIdLength == 8

\* A text of n equal characters
Rep(ch, n) == [i \in 1..n |-> ch]

IsWhitespace(ch) == ch = " "

\* String.prototype.trim
RECURSIVE trim(_)
trim(text) ==
    IF text = <<>> THEN text
    ELSE IF IsWhitespace(text[1]) THEN trim(Tail(text))
    ELSE IF IsWhitespace(text[Len(text)]) THEN trim(SubSeq(text, 1, Len(text) - 1))
    ELSE text

\* Texts typed into a description field: empty, one character short, exactly
\* long enough, padded with blanks, and blank
DescriptionTexts ==
    { <<>>,
      Rep("a", MinDescriptionLength - 1),
      Rep("a", MinDescriptionLength),
      <<" ">> \o Rep("a", MinDescriptionLength - 1) \o <<" ">>,
      Rep(" ", MinDescriptionLength) }

\* PatientMatchForm.exampleDescriptions (one of them, by its length)
exampleDescriptions == { Rep("e", 5 * MinDescriptionLength) }

LocationTexts == { <<>>, <<" ">>, <<"C","A">> }

TooShortMessage == "Please provide at least 20 characters describing the patient."

\* Trials of the corpus as the ranker sees them: the field verdicts of the
\* patient against the trial and the composite score
AllMatch == [f \in EvaluatedFields |-> "match"]

CorpusTrials ==
    { [nct_id |-> 1, verdicts |-> AllMatch, composite |-> 50],
      [nct_id |-> 2, verdicts |-> [AllMatch EXCEPT !["stage"] = "warning"], composite |-> 50],
      [nct_id |-> 3, verdicts |-> [AllMatch EXCEPT !["age"] = "mismatch"], composite |-> 80],
      [nct_id |-> 4, verdicts |-> [AllMatch EXCEPT !["ecog"] = "unknown"], composite |-> 30] }

Corpora ==
    { <<a, b, c>> : a \in CorpusTrials, b \in CorpusTrials, c \in CorpusTrials }

\* A TrialMatch of the response
TrialMatch(trial) ==
    [ nct_id      |-> trial.nct_id,
      eligibility |-> [status |-> aggregate(trial.verdicts)],
      match_score |-> trial.composite ]

\* Order of the ranking: composite score descending, eligible before
\* uncertain at equal score, then NCT id
RankedBefore(a, b) ==
    \/ a.match_score > b.match_score
    \/ /\ a.match_score = b.match_score
       /\ a.eligibility.status = "eligible"
       /\ b.eligibility.status # "eligible"
    \/ /\ a.match_score = b.match_score
       /\ a.eligibility.status = b.eligibility.status
       /\ a.nct_id <= b.nct_id

RECURSIVE rankSort(_)
rankSort(trials) ==
    IF trials = <<>> THEN <<>>
    ELSE LET sorted == rankSort(SubSeq(trials, 1, Len(trials) - 1))
             t      == trials[Len(trials)]
             before == SelectSeq(sorted, LAMBDA x : RankedBefore(x, t))
             after  == SelectSeq(sorted, LAMBDA x : ~RankedBefore(x, t))
         IN  before \o <<t>> \o after

FirstN(seq, n) == SubSeq(seq, 1, IF Len(seq) < n THEN Len(seq) ELSE n)

\* A ranker that returns every evaluated trial
rank_KeepsIneligible(corpus, top_n) ==
    FirstN(rankSort([i \in 1..Len(corpus) |-> TrialMatch(corpus[i])]), top_n)

\* Trial Ranker: evaluate each trial, discard the ineligible ones, sort, and
\* return the first top_n
rank(corpus, top_n) ==
    FirstN(rankSort(SelectSeq([i \in 1..Len(corpus) |-> TrialMatch(corpus[i])],
                              LAMBDA m : m.eligibility.status # "ineligible")),
           top_n)

\* PatientMatchResponse bodies the match endpoints may answer with
MatchResponses ==
    { [trials |-> rank(corpus, top_n)] : corpus \in Corpora, top_n \in {2, 5} }

\* Competitors of an analysis response, with their scores in hundredths
CompetitorPool ==
    { [nct_id |-> 1, similarity_score |-> 80, biomarker_overlap |-> 50,
       geographic_overlap |-> 20, phase_proximity |-> 100],
      [nct_id |-> 2, similarity_score |-> 80, biomarker_overlap |-> 100,
       geographic_overlap |-> 20, phase_proximity |-> 50],
      [nct_id |-> 3, similarity_score |-> 60, biomarker_overlap |-> 100,
       geographic_overlap |-> 0, phase_proximity |-> 100],
      [nct_id |-> 4, similarity_score |-> 90, biomarker_overlap |-> 0,
       geographic_overlap |-> 100, phase_proximity |-> 50] }

\* CompetitorAnalysisResponse bodies: up to three competitors in any order
CompetitorResponses ==
    { [competitors |-> <<>>] }
    \cup { [competitors |-> <<a, b>>] :
             a \in CompetitorPool, b \in CompetitorPool }
    \cup { [competitors |-> <<a, b, c>>] :
             a \in CompetitorPool, b \in CompetitorPool, c \in CompetitorPool }

matchEndpoints == {"/match", "/match/v2", "/match/structured"}

competitorEndpoints ==
    {"/competitor/analyze", "/competitor/analyze/natural", "/competitor/analyze/{nctId}"}

\* What fetch can come back with: an answer with ok status and a JSON body,
\* an answer with an error status and possibly a detail, or a rejection
\* (status 0) when the network fails
OkResponse(body) == [status |-> 200, detail |-> Null, body |-> Some(body)]

FailureResponses ==
    { [status |-> 422, detail |-> "Description is too short", body |-> None],
      [status |-> 500, detail |-> Null, body |-> None],
      [status |-> 0, detail |-> Null, body |-> None] }

AllResponses ==
    FailureResponses
    \cup { OkResponse(b) : b \in MatchResponses \cup CompetitorResponses }

ResponsesTo(endpoint) ==
    FailureResponses
    \cup { OkResponse(b) : b \in IF endpoint \in matchEndpoints
                                 THEN MatchResponses ELSE CompetitorResponses }

IsValidationError(resp) == resp.status = 422

ApiErrorText(status) ==
    CASE status = 422 -> "API error: 422"
      [] status = 500 -> "API error: 500"

\* The message of the error that postApi / fetchApi throws for a failure;
\* fetchApi does not read the detail
thrownMessage(endpoint, resp) ==
    IF resp.status = 0 THEN "Failed to fetch"
    ELSE IF resp.detail # Null /\ endpoint # "/competitor/analyze/{nctId}"
    THEN resp.detail
    ELSE ApiErrorText(resp.status)

\* A request as sent, and later its outcome
Request(endpoint, text) == [endpoint |-> endpoint, description |-> text, outcome |-> None]

\* The last request of the log gets its outcome
Answered(log, resp) == [log EXCEPT ![Len(log)].outcome = Some(resp)]

\* CompetitorResults comparator: the sign decides the order
compare_Ascending(by, a, b) ==
    CASE by = "biomarker"  -> a.biomarker_overlap - b.biomarker_overlap
      [] by = "geographic" -> a.geographic_overlap - b.geographic_overlap
      [] by = "phase"      -> a.phase_proximity - b.phase_proximity
      [] OTHER             -> a.similarity_score - b.similarity_score

compare(by, a, b) ==
    CASE by = "biomarker"  -> b.biomarker_overlap - a.biomarker_overlap
      [] by = "geographic" -> b.geographic_overlap - a.geographic_overlap
      [] by = "phase"      -> b.phase_proximity - a.phase_proximity
      [] OTHER             -> b.similarity_score - a.similarity_score

\* Array.prototype.sort on a copy: a stable sort, so an element goes after
\* every element that the comparator does not put behind it
RECURSIVE sort(_, _)
sort(arr, by) ==
    IF arr = <<>> THEN <<>>
    ELSE LET sorted == sort(SubSeq(arr, 1, Len(arr) - 1), by)
             e      == arr[Len(arr)]
             keep   == {i \in 1..Len(sorted) : compare(by, sorted[i], e) <= 0}
             p      == IF keep = {} THEN 0
                       ELSE CHOOSE i \in keep : \A j \in keep : j <= i
         IN  SubSeq(sorted, 1, p) \o <<e>> \o SubSeq(sorted, p + 1, Len(sorted))

SortOptions == {"similarity", "biomarker", "geographic", "phase"}

-----------------------------------------------------------------------------
\* MatchPage with PatientMatchForm (free text) or MatchQuiz (structured)

formVars == <<description, formLocation, formError>>

competitorVars == <<viewState, competitorStep, quizState, sortBy, sortedCompetitors>>

netVars == <<pc, requests, response>>

\* PatientMatchForm is rendered, and its controls are enabled
FormEnabled ==
    /\ page = "match_freetext"
    /\ results = None
    /\ ~loading

\* PatientMatchForm: the description textarea changes
DescriptionOnChange(text) ==
    /\ FormEnabled
    /\ description' = text
    /\ UNCHANGED <<page, formLocation, formError, loading, usedV2, error, results>>
    /\ UNCHANGED <<competitorVars, netVars>>
    /\ OutsidePages

\* PatientMatchForm: the location input changes
FormLocationOnChange(text) ==
    /\ FormEnabled
    /\ formLocation' = text
    /\ UNCHANGED <<page, description, formError, loading, usedV2, error, results>>
    /\ UNCHANGED <<competitorVars, netVars>>
    /\ OutsidePages

\* PatientMatchForm.handleExample
handleExample(example) ==
    /\ FormEnabled
    /\ description' = example
    /\ formError' = Null
    /\ UNCHANGED <<page, formLocation, loading, usedV2, error, results>>
    /\ UNCHANGED <<competitorVars, netVars>>
    /\ OutsidePages

\* A handler that leaves the previous error in place when it starts
SubmitStarts_KeepsError(endpoint, text) ==
    /\ loading' = TRUE
    /\ results' = None
    /\ usedV2' = FALSE
    /\ pc' = endpoint
    /\ requests' = <<Request(endpoint, text)>>
    /\ response' = None
    /\ UNCHANGED error

\* MatchPage.handleSubmit up to its first await: the request goes out
SubmitStarts(endpoint, text) ==
    /\ loading' = TRUE
    /\ error' = Null
    /\ results' = None
    /\ usedV2' = FALSE
    /\ pc' = endpoint
    /\ requests' = <<Request(endpoint, text)>>
    /\ response' = None

\* A form that lets any description through
FormHandleSubmit_NoLengthCheck ==
    /\ FormEnabled
    /\ formError' = Null
    /\ SubmitStarts("/match/v2", Some(trim(description)))
    /\ UNCHANGED <<page, description, formLocation>>
    /\ UNCHANGED competitorVars
    /\ OutsidePages

\* PatientMatchForm.handleSubmit on a submit event of the form
FormHandleSubmit ==
    /\ FormEnabled
    /\ IF Len(trim(description)) < MinDescriptionLength
       THEN /\ formError' = TooShortMessage
            /\ UNCHANGED <<loading, usedV2, error, results, netVars>>
       ELSE /\ formError' = Null
            /\ SubmitStarts("/match/v2", Some(trim(description)))
    /\ UNCHANGED <<page, description, formLocation>>
    /\ UNCHANGED competitorVars
    /\ OutsidePages

\* MatchQuiz calls onSubmit(profile) (its submit button is disabled while
\* loading): the structured MatchPage.handleSubmit starts
StructuredSubmit ==
    /\ page = "match_structured"
    /\ results = None
    /\ ~loading
    /\ SubmitStarts("/match/structured", None)
    /\ UNCHANGED <<page, formVars, competitorVars>>
    /\ OutsidePages

\* The server answers the awaited request, or the network fails
ServerResponds(resp) ==
    /\ pc # "idle"
    /\ response = None
    /\ resp \in ResponsesTo(pc)
    /\ response' = Some(resp)
    /\ UNCHANGED <<page, formVars, loading, usedV2, competitorVars, error, results,
                   pc, requests>>
    /\ OutsidePages

\* The handler ends (finally): loading is over and nothing is awaited
HandlerEnds(resp) ==
    /\ loading' = FALSE
    /\ pc' = "idle"
    /\ requests' = Answered(requests, resp)
    /\ response' = None

\* setResults(response): the results replace the form, which unmounts
ShowResults(resp, v2) ==
    /\ results' = resp.body
    /\ usedV2' = v2
    /\ description' = <<>>
    /\ formLocation' = <<>>
    /\ formError' = Null
    /\ UNCHANGED error
    /\ HandlerEnds(resp)

\* A page that shows an empty result list when the request fails
ShowFailure_EmptyResults(resp) ==
    /\ results' = Some([trials |-> <<>>])
    /\ error' = thrownMessage(pc, resp)
    /\ UNCHANGED <<formVars, usedV2>>
    /\ HandlerEnds(resp)

\* catch: setError(message of the thrown error)
ShowFailure(resp) ==
    /\ error' = thrownMessage(pc, resp)
    /\ UNCHANGED <<formVars, usedV2, results>>
    /\ HandlerEnds(resp)

\* MatchPage.handleSubmit resumes after its await with the answer
MatchHandlerResumes ==
    /\ page \in {"match_freetext", "match_structured"}
    /\ IsSome(response)
    /\ LET resp == Val(response) IN
         CASE pc = "/match/v2" ->
                IF IsSome(resp.body)
                THEN ShowResults(resp, TRUE)
                ELSE \* catch: fall back to v1
                     /\ pc' = "/match"
                     /\ requests' = Append(Answered(requests, resp),
                                           Request("/match", requests[1].description))
                     /\ response' = None
                     /\ UNCHANGED <<formVars, loading, usedV2, error, results>>
           [] pc = "/match" ->
                IF IsSome(resp.body)
                THEN ShowResults(resp, FALSE)
                ELSE ShowFailure(resp)
           [] pc = "/match/structured" ->
                IF IsSome(resp.body)
                THEN ShowResults(resp, FALSE)
                ELSE ShowFailure(resp)
    /\ UNCHANGED <<page, competitorVars>>
    /\ OutsidePages

\* MatchPage.handleReset behind "New Search"
MatchHandleReset ==
    /\ page \in {"match_freetext", "match_structured"}
    /\ IsSome(results)
    /\ results' = None
    /\ error' = Null
    /\ UNCHANGED <<page, formVars, loading, usedV2, competitorVars, netVars>>
    /\ OutsidePages

\* ErrorMessage retry: setError(null)
DismissError ==
    /\ page \in {"match_freetext", "match_structured"}
    /\ results = None
    /\ error # Null
    /\ error' = Null
    /\ UNCHANGED <<page, formVars, loading, usedV2, competitorVars, results, netVars>>
    /\ OutsidePages

-----------------------------------------------------------------------------
\* CompetitorPage with CompetitorQuiz and CompetitorResults

COMPETITOR_TOTAL_STEPS == 4

inputMethods == {"nct_id", "natural", "manual"}

NctIdTexts == { <<"n","c","t">>, <<"n","c","t","0","4","4","8","7","0","8","0">> }

\* CompetitorQuiz is rendered
QuizShown ==
    /\ page = "competitor"
    /\ viewState = "quiz"

\* A field of the first step changes (updateState)
UpdateState(field, value) ==
    /\ QuizShown
    /\ competitorStep = 0
    /\ quizState' = [quizState EXCEPT ![field] = value]
    /\ UNCHANGED <<page, formVars, loading, usedV2, viewState, competitorStep,
                   sortBy, sortedCompetitors, error, results, netVars>>
    /\ OutsidePages

\* TrialInputStep.handleMethodSelect
SelectMethod(method) == UpdateState("inputMethod", method)

\* TrialInputStep: the NCT id input, shown for the nct_id method
NctIdOnChange(text) ==
    /\ quizState.inputMethod = "nct_id"
    /\ UpdateState("nctId", toUpperCase(text))

\* TrialInputStep: the description textarea, shown for the natural method
TrialDescriptionOnChange(text) ==
    /\ quizState.inputMethod = "natural"
    /\ UpdateState("description", text)

\* CompetitorQuiz.canProceed
competitorCanProceed ==
    IF competitorStep = 0
    THEN IF quizState.inputMethod = "nct_id"
         THEN Len(quizState.nctId) >= MinNctIdLength
         ELSE IF quizState.inputMethod = "natural"
         THEN Len(quizState.description) >= MinDescriptionLength
         ELSE quizState.inputMethod = "manual"
    ELSE TRUE

\* CompetitorQuiz.shouldSkipToSubmit
shouldSkipToSubmit == quizState.inputMethod \in {"nct_id", "natural"}

\* CompetitorQuiz.getEffectiveTotalSteps
getEffectiveTotalSteps == IF shouldSkipToSubmit THEN 1 ELSE COMPETITOR_TOTAL_STEPS

\* The Continue button is rendered, otherwise the Find Competitors button
ContinueShown ==
    competitorStep < getEffectiveTotalSteps - 1 /\ ~shouldSkipToSubmit

\* CompetitorQuiz.handleSubmit calling the page's handler for the input
\* method, up to the handler's await; the loading view replaces the quiz
CompetitorSubmits ==
    /\ viewState' = "loading"
    /\ error' = Null
    /\ competitorStep' = 0
    /\ quizState' = initialState
    /\ response' = None
    /\ CASE quizState.inputMethod = "nct_id" ->
              /\ pc' = "/competitor/analyze/{nctId}"
              /\ requests' = <<Request(pc', Some(quizState.nctId))>>
         [] quizState.inputMethod = "natural" ->
              /\ pc' = "/competitor/analyze/natural"
              /\ requests' = <<Request(pc', Some(quizState.description))>>
         [] OTHER ->
              /\ pc' = "/competitor/analyze"
              /\ requests' = <<Request(pc', None)>>
    /\ UNCHANGED <<page, formVars, loading, usedV2, sortBy, sortedCompetitors, results>>
    /\ OutsidePages

\* CompetitorQuiz.handleNext behind Continue, or behind Find Competitors on
\* the first step (both disabled unless canProceed)
CompetitorHandleNext ==
    /\ QuizShown
    /\ ContinueShown \/ competitorStep = 0
    /\ competitorCanProceed
    /\ IF competitorStep = 0 /\ shouldSkipToSubmit
       THEN CompetitorSubmits
       ELSE /\ competitorStep < COMPETITOR_TOTAL_STEPS - 1
            /\ competitorStep' = competitorStep + 1
            /\ UNCHANGED <<page, formVars, loading, usedV2, viewState, quizState,
                           sortBy, sortedCompetitors, error, results, netVars>>
            /\ OutsidePages

\* CompetitorQuiz.handleSubmit behind Find Competitors after the first step
CompetitorHandleSubmit ==
    /\ QuizShown
    /\ ~ContinueShown
    /\ competitorStep # 0
    /\ competitorCanProceed
    /\ CompetitorSubmits

\* CompetitorQuiz.handleBack
CompetitorHandleBack ==
    /\ QuizShown
    /\ competitorStep > 0
    /\ competitorStep' = competitorStep - 1
    /\ UNCHANGED <<page, formVars, loading, usedV2, viewState, quizState,
                   sortBy, sortedCompetitors, error, results, netVars>>
    /\ OutsidePages

\* A page's handler resumes after its await with the answer; CompetitorResults
\* mounts with the default sort
CompetitorHandlerResumes ==
    /\ page = "competitor"
    /\ IsSome(response)
    /\ LET resp == Val(response) IN
         /\ IF IsSome(resp.body)
            THEN /\ results' = resp.body
                 /\ viewState' = "results"
                 /\ sortBy' = "similarity"
                 /\ sortedCompetitors' = sort(Val(resp.body).competitors, "similarity")
                 /\ UNCHANGED error
            ELSE /\ error' = thrownMessage(pc, resp)
                 /\ viewState' = "error"
                 /\ UNCHANGED <<results, sortBy, sortedCompetitors>>
         /\ requests' = Answered(requests, resp)
    /\ pc' = "idle"
    /\ response' = None
    /\ UNCHANGED <<page, formVars, loading, usedV2, competitorStep, quizState>>
    /\ OutsidePages

\* CompetitorResults: the sort select changes, and the list is sorted anew
SetSortBy(option) ==
    /\ page = "competitor"
    /\ viewState = "results"
    /\ sortBy' = option
    /\ sortedCompetitors' = sort(Val(results).competitors, option)
    /\ UNCHANGED <<page, formVars, loading, usedV2, viewState, competitorStep,
                   quizState, error, results, netVars>>
    /\ OutsidePages

\* A reset that leaves the previous results in place
CompetitorHandleReset_KeepsResults ==
    /\ page = "competitor"
    /\ viewState \in {"results", "error"}
    /\ viewState' = "quiz"
    /\ error' = Null
    /\ sortBy' = "similarity"
    /\ sortedCompetitors' = <<>>
    /\ UNCHANGED <<page, formVars, loading, usedV2, competitorStep, quizState,
                   results, netVars>>
    /\ OutsidePages

\* CompetitorPage.handleReset behind "New Analysis" and "Try Again"
CompetitorHandleReset ==
    /\ page = "competitor"
    /\ viewState \in {"results", "error"}
    /\ viewState' = "quiz"
    /\ results' = None
    /\ error' = Null
    /\ sortBy' = "similarity"
    /\ sortedCompetitors' = <<>>
    /\ UNCHANGED <<page, formVars, loading, usedV2, competitorStep, quizState, netVars>>
    /\ OutsidePages

InitPages ==
    /\ patientProfile = None
    /\ eligibility = BaseTrial
    /\ items = Display(eligibility, patientProfile)
    /\ QuizMounted
    /\ EngineIdle
    /\ page \in {"match_freetext", "match_structured", "competitor"}
    /\ ComponentsMounted
    /\ TrialsIdle
    /\ ManualIdle

NextPages ==
    \/ \E text \in DescriptionTexts : DescriptionOnChange(text)
    \/ \E text \in LocationTexts : FormLocationOnChange(text)
    \/ \E example \in exampleDescriptions : handleExample(example)
    \/ FormHandleSubmit
    \/ StructuredSubmit
    \/ \E resp \in AllResponses : ServerResponds(resp)
    \/ MatchHandlerResumes
    \/ MatchHandleReset
    \/ DismissError
    \/ \E method \in inputMethods : SelectMethod(method)
    \/ \E text \in NctIdTexts : NctIdOnChange(text)
    \/ \E text \in DescriptionTexts : TrialDescriptionOnChange(text)
    \/ CompetitorHandleNext
    \/ CompetitorHandleSubmit
    \/ CompetitorHandleBack
    \/ CompetitorHandlerResumes
    \/ \E option \in SortOptions : SetSortBy(option)
    \/ CompetitorHandleReset

SpecPages == InitPages /\ [][NextPages]_vars

\* The event loop resumes a handler whose awaited answer has arrived; nothing
\* obliges the server to answer
SpecPagesFair ==
    /\ SpecPages
    /\ WF_vars(MatchHandlerResumes)
    /\ WF_vars(CompetitorHandlerResumes)

\* MatchResults renders every trial of the results it is given
ShownTrials ==
    IF page \in {"match_freetext", "match_structured"} /\ IsSome(results)
    THEN Val(results).trials
    ELSE <<>>

FreeTextRequests(endpoints) ==
    {i \in 1..Len(requests) : requests[i].endpoint \in endpoints}

\* C15: free text shorter than 20 characters is rejected before any request
\* is made: no match request carries a description shorter than 20
\* characters, a form showing its validation error has made no request, and
\* no natural-language competitor request carries a description shorter than
\* 20 characters.
C15_ShortFreeTextRejected ==
    /\ \A i \in FreeTextRequests({"/match/v2", "/match"}) :
           Len(Val(requests[i].description)) >= MinDescriptionLength
    /\ formError = TooShortMessage => (pc = "idle" /\ ~loading)
    /\ \A i \in FreeTextRequests({"/competitor/analyze/natural"}) :
           Len(Val(requests[i].description)) >= MinDescriptionLength

\* The form has rejected a description that is too short once trimmed, and
\* no request has been made
C15_Witness ==
    /\ page = "match_freetext"
    /\ formError = TooShortMessage
    /\ Len(description) > MinDescriptionLength
    /\ Len(trim(description)) < MinDescriptionLength
    /\ requests = <<>>

\* C16: when the server rejects a free-text match submission with a
\* validation error, no further match request is sent for that submission,
\* and the error the page shows once the handler has finished is that
\* error's message.
C16_ValidationErrorIsFinal ==
    page = "match_freetext" =>
        \A i \in 1..Len(requests) :
            (IsSome(requests[i].outcome) /\ IsValidationError(Val(requests[i].outcome))) =>
                /\ Len(requests) = i
                /\ (pc = "idle" /\ error # Null) =>
                       error = Val(requests[i].outcome).detail

\* Every request of the latest submission has been answered with a failure
AllRequestsFailed(log) ==
    /\ log # <<>>
    /\ \A i \in 1..Len(log) : IsSome(log[i].outcome) /\ ~IsSome(Val(log[i].outcome).body)

\* C17: if every request attempted for a match submission fails, then when
\* the handler finishes results is null, error is non-null and loading is
\* false.
C17_FailureShowsNoResults ==
    [][ ( /\ page \in {"match_freetext", "match_structured"}
          /\ pc # "idle"
          /\ pc' = "idle"
          /\ AllRequestsFailed(requests') )
        => (results' = None /\ error' # Null /\ ~loading') ]_vars

\* Both requests of a free-text submission have failed and the handler has
\* finished with the error shown and no results
C17_Witness ==
    /\ page = "match_freetext"
    /\ pc = "idle"
    /\ Len(requests) = 2
    /\ AllRequestsFailed(requests)
    /\ results = None
    /\ error # Null
    /\ ~loading

\* C18: every free-text match submission eventually leaves the loading state.
C18_LoadingEnds == (page = "match_freetext" /\ loading) ~> ~loading

\* The permutations of 1..n
Orderings(n) == {f \in [1..n -> 1..n] : \A i, j \in 1..n : f[i] = f[j] => i = j}

\* C19: under the default sort the displayed competitor list is a
\* permutation of the response's competitors in non-increasing
\* similarity_score order, and competitors of equal similarity_score keep the
\* relative order of the response.
C19_DefaultSortIsStableDescending ==
    (page = "competitor" /\ viewState = "results" /\ sortBy = "similarity") =>
        LET competitors == Val(results).competitors
            n == Len(competitors)
        IN  /\ Len(sortedCompetitors) = n
            /\ \E f \in Orderings(n) :
                 /\ \A i \in 1..n : sortedCompetitors[i] = competitors[f[i]]
                 /\ \A i, j \in 1..n : i < j =>
                      /\ sortedCompetitors[i].similarity_score
                           >= sortedCompetitors[j].similarity_score
                      /\ sortedCompetitors[i].similarity_score
                           = sortedCompetitors[j].similarity_score => f[i] < f[j]

\* A response that lists the lowest score first and two competitors of equal
\* score in the order 2, 1 is displayed as 2, 1 and then the lowest
C19_Witness ==
    /\ page = "competitor"
    /\ viewState = "results"
    /\ sortBy = "similarity"
    /\ Len(sortedCompetitors) = 3
    /\ Val(results).competitors[1].nct_id = 3
    /\ Val(results).competitors[2].nct_id = 2
    /\ Val(results).competitors[3].nct_id = 1
    /\ sortedCompetitors[1].nct_id = 2
    /\ sortedCompetitors[2].nct_id = 1
    /\ sortedCompetitors[3].nct_id = 3

-----------------------------------------------------------------------------
\* Properties of the profile MatchQuiz builds and submits

\* The fields whose value a step changes
ChangedFields == { f \in DOMAIN profile : profile'[f] # profile[f] }

\* The fields one click may name: a single field, or the two fields the
\* brain-metastases button updates with its two onUpdate calls
NamedTogether(fields) ==
    \/ Cardinality(fields) <= 1
    \/ fields \subseteq {"brain_mets_status", "brain_metastases"}

\* A new MatchQuiz is mounted in place of the results
Remounts == isLoading /\ ~isLoading' /\ profile' = initialProfile /\ currentStep' = 0

\* C21: cancer_type is "NSCLC" in the quiz's profile and in every profile
\* passed to onSubmit, and a step of the quiz that updates the profile
\* changes only the field named by the update (the two fields of the
\* brain-metastases button's two updates), leaving every other field as it
\* was.
C21_CancerTypeFixedAndUpdatesFramed ==
    [][ /\ profile'.cancer_type = "NSCLC"
        /\ IsSome(submitted') => Val(submitted').cancer_type = "NSCLC"
        /\ ~Remounts => NamedTogether(ChangedFields) ]_vars

\* A profile is submitted after several of its fields were updated
C21_Witness ==
    /\ IsSome(submitted)
    /\ Val(submitted).age # None
    /\ Val(submitted).biomarkers # EmptyMap
    /\ IsSome(Val(submitted).brain_metastases)
    /\ Val(submitted).location # Null

\* C22: currentStep stays within 0..4, onSubmit is called only from the
\* last step, and every profile passed to onSubmit has a stage, a line of
\* therapy and an ECOG status.
C22_SubmitOnlyFromLastStepWithRequiredFields ==
    /\ currentStep \in 0..4
    /\ IsSome(submitted) =>
         /\ currentStep = 4
         /\ Val(submitted).stage # None
         /\ Val(submitted).line_of_therapy # Null
         /\ Val(submitted).ecog_status # None

\* A profile holding nothing but the three required answers is submitted
C22_Witness ==
    /\ IsSome(submitted)
    /\ currentStep = TOTAL_STEPS - 1
    /\ Val(submitted).age = None
    /\ Val(submitted).histology = None
    /\ Val(submitted).biomarkers = EmptyMap

\* C23: a submitted profile whose line of therapy is treatment-naive has no
\* prior treatments and no last treatment date.
C23_TreatmentNaiveHasNoTreatments ==
    (IsSome(submitted) /\ Val(submitted).line_of_therapy = "treatment_naive") =>
        /\ Val(submitted).prior_treatments = Some(<<>>)
        /\ Val(submitted).last_treatment_date = Null

\* C24: brain_metastases and brain_mets_status agree: 'none' goes with
\* false, 'stable' and 'active' with true, 'unknown' and unanswered with
\* null.
C24_BrainMetsFieldsAgree ==
    /\ profile.brain_mets_status = "none" => profile.brain_metastases = Some(FALSE)
    /\ profile.brain_mets_status \in {"stable", "active"} =>
           profile.brain_metastases = Some(TRUE)
    /\ profile.brain_mets_status \in {"unknown", Null} =>
           profile.brain_metastases = None

\* The user answers 'unknown' on the health step
C24_Witness ==
    /\ currentStep = 3
    /\ profile.brain_mets_status = "unknown"

\* C29: every key present in profile.biomarkers maps to a non-empty list of
\* values.
C29_BiomarkerListsNonEmpty ==
    \A key \in DOMAIN profile.biomarkers : Len(profile.biomarkers[key]) > 0

\* A driver mutation and a PD-L1 level are both selected
C29_Witness ==
    /\ currentStep = 1
    /\ DOMAIN profile.biomarkers = {"EGFR", "PD-L1"}

-----------------------------------------------------------------------------
\* Properties of the pages' view state

\* C25: on the match page results and error are never both non-null, and
\* while a request is loading both are null.
C25_ResultsAndErrorExclusive ==
    page \in {"match_freetext", "match_structured"} =>
        /\ ~(IsSome(results) /\ error # Null)
        /\ loading => (results = None /\ error = Null)

\* A structured submission is loading: its answer, a result list, has
\* arrived and the handler has not shown it yet
C25_Witness ==
    /\ page = "match_structured"
    /\ loading
    /\ response # None
    /\ IsSome(Val(response).body)

\* C26: on CompetitorPage viewState 'results' implies results is non-null,
\* 'error' implies error is non-null, and 'quiz' implies results and error
\* are both null.
C26_ViewStateAgreesWithData ==
    page = "competitor" =>
        /\ viewState = "results" => IsSome(results)
        /\ viewState = "error" => error # Null
        /\ viewState = "quiz" => (results = None /\ error = Null)

\* The quiz is shown again after a reset that followed an analysis
C26_Witness ==
    /\ page = "competitor"
    /\ viewState = "quiz"
    /\ Len(requests) > 0
    /\ IsSome(requests[1].outcome)

-----------------------------------------------------------------------------
\* TrialsPage: the filters and the requests of fetchData

\* The requests one visit of the page may make
MaxRequests == 4

\* Pages of the result list the pagination offers
MaxPage == 2

PhaseFilters == {"", "Phase 2"}

SearchTexts == {"", "egfr"}

FailedToLoad == "Failed to load clinical trials"

\* The parameters fetchData passes to api.getTrials, with the outcome of the
\* request
TrialsRequest(p, ph, s) ==
    [page |-> p, phase |-> ph, search |-> s, outcome |-> "pending"]

\* The response to a request is the page of trials for its parameters
ResponseTo(request) ==
    [page |-> request.page, phase |-> request.phase, search |-> request.search]

\* The requests of the log with the given outcome
RequestsWith(log, outcome) == { i \in 1..Len(log) : log[i].outcome = outcome }

\* fetchData up to its await, called with the values of the render it closes
\* over
fetchData(p, ph, s) ==
    /\ trialsLoading' = TRUE
    /\ trialsError' = Null
    /\ trialRequests' = Append(trialRequests, TrialsRequest(p, ph, s))

\* The phase filter changes: setPhase(value), setPage(1), and the effect on
\* [page, phase, ...] calls fetchData after the render
PhaseOnChange(value) ==
    /\ Len(trialRequests) < MaxRequests
    /\ value # phase
    /\ phase' = value
    /\ pageNumber' = 1
    /\ fetchData(pageNumber', phase', search)
    /\ UNCHANGED <<search, data>>
    /\ OutsideTrials

\* Pagination.onPageChange = setPage; the pagination is rendered with the
\* list, when the page is not loading and shows no error
OnPageChange(p) ==
    /\ Len(trialRequests) < MaxRequests
    /\ ~trialsLoading
    /\ trialsError = Null
    /\ IsSome(data)
    /\ p # pageNumber
    /\ pageNumber' = p
    /\ fetchData(pageNumber', phase, search)
    /\ UNCHANGED <<phase, search, data>>
    /\ OutsideTrials

\* The search input changes: setSearch only
SearchOnChange(text) ==
    /\ search' = text
    /\ UNCHANGED <<pageNumber, phase, data, trialsLoading, trialsError, trialRequests>>
    /\ OutsideTrials

\* handleSearch: setPage(1) and fetchData() with the page of the current
\* render; when the page changes, the effect calls fetchData again
handleSearch ==
    /\ pageNumber' = 1
    /\ IF pageNumber = 1
       THEN /\ Len(trialRequests) < MaxRequests
            /\ fetchData(pageNumber, phase, search)
       ELSE /\ Len(trialRequests) + 1 < MaxRequests
            /\ trialsLoading' = TRUE
            /\ trialsError' = Null
            /\ trialRequests' = trialRequests \o
                                   << TrialsRequest(pageNumber, phase, search),
                                      TrialsRequest(pageNumber', phase, search) >>
    /\ UNCHANGED <<phase, search, data>>
    /\ OutsideTrials

\* A request is answered and its fetchData resumes: setData(result), and
\* setLoading(false) in finally
GetTrialsResolves(i) ==
    /\ i \in RequestsWith(trialRequests, "pending")
    /\ data' = Some(ResponseTo(trialRequests[i]))
    /\ trialsLoading' = FALSE
    /\ trialRequests' = [trialRequests EXCEPT ![i].outcome = "ok"]
    /\ UNCHANGED <<pageNumber, phase, search, trialsError>>
    /\ OutsideTrials

\* A request fails and its fetchData resumes in catch
GetTrialsRejects(i) ==
    /\ i \in RequestsWith(trialRequests, "pending")
    /\ trialsError' = FailedToLoad
    /\ trialsLoading' = FALSE
    /\ trialRequests' = [trialRequests EXCEPT ![i].outcome = "failed"]
    /\ UNCHANGED <<pageNumber, phase, search, data>>
    /\ OutsideTrials

\* TrialsPage is mounted and its effect has called fetchData
InitTrials ==
    /\ patientProfile = None
    /\ eligibility = BaseTrial
    /\ items = Display(eligibility, patientProfile)
    /\ QuizMounted
    /\ EngineIdle
    /\ PagesIdle
    /\ ManualIdle
    /\ pageNumber = 1
    /\ phase = ""
    /\ search = ""
    /\ data = None
    /\ trialsLoading = TRUE
    /\ trialsError = Null
    /\ trialRequests = << TrialsRequest(pageNumber, phase, search) >>

NextTrials ==
    \/ \E value \in PhaseFilters : PhaseOnChange(value)
    \/ \E p \in 1..MaxPage : OnPageChange(p)
    \/ \E text \in SearchTexts : SearchOnChange(text)
    \/ handleSearch
    \/ \E i \in 1..MaxRequests : GetTrialsResolves(i)
    \/ \E i \in 1..MaxRequests : GetTrialsRejects(i)

SpecTrials == InitTrials /\ [][NextTrials]_vars

\* The latest request that was answered with a result
LatestAnswered == 
    CHOOSE i \in RequestsWith(trialRequests, "ok") :
        \A j \in RequestsWith(trialRequests, "ok") : j <= i

\* C27: once no request is outstanding, the data shown is the response to
\* the latest request that was answered, which was issued for the page and
\* the filter the page now has: the response to an earlier request has not
\* overwritten the response to a later one.
C27_LatestResponseShown ==
    (RequestsWith(trialRequests, "pending") = {}
        /\ RequestsWith(trialRequests, "ok") # {}) =>
        /\ data = Some(ResponseTo(trialRequests[LatestAnswered]))
        /\ LatestAnswered = Len(trialRequests) =>
              (Val(data).page = pageNumber /\ Val(data).phase = phase)

-----------------------------------------------------------------------------
\* CompetitorQuiz on its manual path: the criteria step's age bounds and the
\* location step

\* Texts typed into the two age inputs of TrialCriteriaStep
CriteriaAgeTexts == { <<>>, <<0>>, <<4, 0>>, <<6, 0>>, <<1, 5, 0>> }

\* The max attribute of the age inputs
MaxAgeInput == 120

\* States of usStates: two of the Southeast, one of the Southwest, two that
\* no region lists
usStates == <<"Alabama", "Alaska", "Arizona", "Florida", "Wyoming">>

regionGroups ==
    [ Southeast |-> <<"Alabama", "Florida">>,
      Southwest |-> <<"Arizona">> ]

\* The states the step renders a button for: those of the regions
RenderedStates == UNION { Elems(regionGroups[r]) : r \in DOMAIN regionGroups }

\* TrialLocationStep.toggleState
toggleState(locations, s) ==
    IF s \in Elems(locations) THEN Without(locations, s) ELSE Append(locations, s)

\* [...new Set([...locations, ...regionStates])]
RECURSIVE AppendNew(_, _)
AppendNew(locations, regionStates) ==
    IF regionStates = <<>> THEN locations
    ELSE AppendNew(IF Head(regionStates) \in Elems(locations)
                   THEN locations
                   ELSE Append(locations, Head(regionStates)),
                   Tail(regionStates))

\* TrialLocationStep.toggleRegion
toggleRegion(locations, regionStates) ==
    IF \A s \in Elems(regionStates) : s \in Elems(locations)
    THEN SelectSeq(locations, LAMBDA s : s \notin Elems(regionStates))
    ELSE AppendNew(locations, regionStates)

\* TrialLocationStep.selectAll and clearAll
selectAll == usStates

clearAll == <<>>

\* JavaScript truthiness of a nullable number
Truthy(n) == IsSome(n) /\ Val(n) # 0

\* CompetitorQuiz.handleSubmit: the age_range of the structured profile
age_range(lo, hi) ==
    IF Truthy(lo) /\ Truthy(hi) THEN Some(<<Val(lo), Val(hi)>>) ELSE None

\* The quiz is shown: no profile has been submitted
ManualQuizShown == structuredProfile = None

\* CompetitorQuiz.handleNext behind Continue
ManualHandleNext ==
    /\ ManualQuizShown
    /\ manualStep < COMPETITOR_TOTAL_STEPS - 1
    /\ manualStep' = manualStep + 1
    /\ UNCHANGED <<ageMin, ageMax, target_locations, structuredProfile>>
    /\ OutsideManual

\* CompetitorQuiz.handleBack behind Back
ManualHandleBack ==
    /\ ManualQuizShown
    /\ manualStep > 0
    /\ manualStep' = manualStep - 1
    /\ UNCHANGED <<ageMin, ageMax, target_locations, structuredProfile>>
    /\ OutsideManual

\* TrialCriteriaStep: the minimum age input changes
AgeMinOnChange(text) ==
    /\ ManualQuizShown
    /\ manualStep = 2
    /\ ageMin' = AgeInputValue(text)
    /\ UNCHANGED <<manualStep, ageMax, target_locations, structuredProfile>>
    /\ OutsideManual

\* TrialCriteriaStep: the maximum age input changes
AgeMaxOnChange(text) ==
    /\ ManualQuizShown
    /\ manualStep = 2
    /\ ageMax' = AgeInputValue(text)
    /\ UNCHANGED <<manualStep, ageMin, target_locations, structuredProfile>>
    /\ OutsideManual

\* TrialLocationStep calls onUpdate('target_locations', value)
UpdateLocations(value) ==
    /\ ManualQuizShown
    /\ manualStep = 3
    /\ target_locations' = value
    /\ UNCHANGED <<manualStep, ageMin, ageMax, structuredProfile>>
    /\ OutsideManual

\* The button of a state listed in a region is clicked
ToggleState(s) ==
    /\ s \in RenderedStates
    /\ UpdateLocations(toggleState(target_locations, s))

\* The checkbox of a region is clicked
ToggleRegion(r) ==
    /\ r \in DOMAIN regionGroups
    /\ UpdateLocations(toggleRegion(target_locations, regionGroups[r]))

\* Select All is clicked
SelectAll ==
    /\ ManualQuizShown
    /\ UpdateLocations(selectAll)

\* Clear All, or Clear in the summary of a non-empty selection, is clicked
ClearAll ==
    /\ ManualQuizShown
    /\ UpdateLocations(clearAll)

\* CompetitorQuiz.handleSubmit behind Find Competitors on the last step: the
\* structured profile goes to onSubmitStructured and the quiz unmounts
ManualHandleSubmit ==
    /\ ManualQuizShown
    /\ manualStep = COMPETITOR_TOTAL_STEPS - 1
    /\ structuredProfile' = Some([ age_range        |-> age_range(ageMin, ageMax),
                                   target_locations |-> target_locations ])
    /\ UNCHANGED <<manualStep, ageMin, ageMax, target_locations>>
    /\ OutsideManual

\* CompetitorPage.handleReset after the analysis: a new quiz mounts, and the
\* user chooses the manual method again
ManualRemount ==
    /\ ~ManualQuizShown
    /\ manualStep' = 0
    /\ ageMin' = None
    /\ ageMax' = None
    /\ target_locations' = <<>>
    /\ structuredProfile' = None
    /\ OutsideManual

InitManual ==
    /\ patientProfile = None
    /\ eligibility = BaseTrial
    /\ items = Display(eligibility, patientProfile)
    /\ QuizMounted
    /\ EngineIdle
    /\ PagesIdle
    /\ TrialsIdle
    /\ ManualIdle

NextManual ==
    \/ ManualHandleNext
    \/ ManualHandleBack
    \/ \E text \in CriteriaAgeTexts : AgeMinOnChange(text)
    \/ \E text \in CriteriaAgeTexts : AgeMaxOnChange(text)
    \/ \E s \in Elems(usStates) : ToggleState(s)
    \/ \E r \in DOMAIN regionGroups : ToggleRegion(r)
    \/ SelectAll
    \/ ClearAll
    \/ ManualHandleSubmit
    \/ ManualRemount

SpecManual == InitManual /\ [][NextManual]_vars

\* C28: every structured profile submitted by CompetitorQuiz has age_range
\* null or a pair [lo, hi] with 0 <= lo <= hi <= 120.
C28_AgeRangeWellFormed ==
    (IsSome(structuredProfile) /\ IsSome(Val(structuredProfile).age_range)) =>
        LET lo == Val(Val(structuredProfile).age_range)[1]
            hi == Val(Val(structuredProfile).age_range)[2]
        IN  0 <= lo /\ lo <= hi /\ hi <= MaxAgeInput

\* The selections one action of the location step leads to
LocationSteps(locations) ==
    { toggleState(locations, s) : s \in RenderedStates }
        \cup { toggleRegion(locations, regionGroups[r]) : r \in DOMAIN regionGroups }
        \cup { selectAll, clearAll }

\* The selections reachable from the given ones through the step's actions
RECURSIVE ReachableSelections(_)
ReachableSelections(selections) ==
    LET more == selections \cup UNION { LocationSteps(l) : l \in selections }
    IN  IF more = selections THEN selections ELSE ReachableSelections(more)

\* C30: for every state s of usStates the selection target_locations = [s]
\* alone is reachable through the location step's actions.
C30_EachStateSelectableAlone ==
    manualStep = COMPETITOR_TOTAL_STEPS - 1 =>
        \A s \in Elems(usStates) :
            <<s>> \in ReachableSelections({target_locations})

====
